---- MODULE Spec2Model ----
(***************************************************************************)
(* The session-multiplexed HTTP + SSE bridge (IdeBridgeServer,             *)
(* src/src/ui/WebviewManager.ts lines 289-606) as a state machine.         *)
(*                                                                         *)
(* The server runs on one event loop, so every callback runs to its next   *)
(* await without interleaving.  The actions are therefore the callbacks    *)
(* and the continuations after each await: the arrival of a request        *)
(* (handleRequest), the end of a request body (the continuation of         *)
(* `await this.readBody(req)`), the settling of an injected handler (the   *)
(* continuation of `await session.handlers.x(...)`), the listen callback,  *)
(* the keepalive tick, the close of a transport, and the public methods    *)
(* createSession, removeSession and send.  stop() is called nowhere in the *)
(* repository and is not an action.  This is specification Spec.           *)
(*                                                                         *)
(* The backend launcher (BackendLauncher,                                  *)
(* src/src/backend/BackendLauncher.ts) is specification LaunchSpec: one    *)
(* launchBackend call at a time, an action per continuation of its awaits  *)
(* (the reuse probe, extractBinary, parseConnectionInfo, the same two in    *)
(* launchBackendFallback), terminate(), the force-kill timer it arms and   *)
(* the exit of a child process.  OverlapSpec is the same launcher with a   *)
(* second launchBackend call that begins while the first awaits (the two   *)
(* callers of src/unnamed/part_002), before the extension is disposed.     *)
(*                                                                         *)
(* The relay of backend events to the webview (WebviewController,          *)
(* src/src/ui/WebviewController.ts lines 482-1045) is RelaySpec and        *)
(* StreamSpec: load(), handleChatSend and the continuations of its awaits, *)
(* the response, data, end and error callbacks of the GET /event request,  *)
(* and dispose().  In RelaySpec each frame is one event and is read whole; *)
(* in StreamSpec the wire carries bytes and a chunk is any prefix of what  *)
(* is unread, so lines and characters are cut by chunk boundaries.         *)
(*                                                                         *)
(* FanoutSpec is the bridge with broadcasts that follow one another;       *)
(* WaitSpec is one parseConnectionInfo call with the child's stdout read   *)
(* in chunks; LaunchFairSpec is LaunchSpec whose armed timers fire.        *)
(***************************************************************************)
EXTENDS Integers, Sequences, FiniteSets, TLC

\* ------------------------------------------------------------------ bounds
MaxSessions == 2   \* createSession calls
MaxEvents   == 2   \* requests to the events route, accepted or not
MaxOps      == 1   \* the other requests, the server pushes, the keepalive ticks,
                   \* the removeSession calls that find no session
MaxPushes   == 2   \* the same, where the pushes follow one another
MaxLaunches   == 2 \* launchBackend calls
MaxResponders == 2 \* ports that answer one reuse probe
MaxLines      == 1 \* stdout lines of a child that announce nothing
MaxTerminates == 1 \* terminate() calls from outside launchBackend
MaxChats  == 2     \* handleChatSend calls
MaxFrames == 2     \* frames the backend writes to the event streams
MaxStderr == 2     \* chunks a child writes to stderr during one wait

\* ------------------------------------------------------------- the values
\* The port the operating system assigns to listen(0, "127.0.0.1").
ListenPort == 50123

NoToken == -1      \* the request carries no token query parameter
Garbage == 0       \* a token (or session id) that randomUUID never returned
NoId    == "absent"

\* The request lines a client sends: the two routes, each also with the
\* other method, the CORS preflight of a send, an action that is no route,
\* and "short", a path with fewer than three parts or another first part.
Lines ==
  {[method |-> "GET",     path |-> "events"],
   [method |-> "POST",    path |-> "events"],
   [method |-> "GET",     path |-> "send"],
   [method |-> "POST",    path |-> "send"],
   [method |-> "OPTIONS", path |-> "send"],
   [method |-> "GET",     path |-> "other"],
   [method |-> "GET",     path |-> "short"]}

OptionalHandlers == {"uiGetState", "uiSetState"}
\* The capability set the k-th createSession call injects.  The four
\* required handlers are always there.  The callers of this repository pass
\* both optional ones; the interface allows leaving them out, and every
\* second call does.
HandlersOf(k) == IF k % 2 = 1 THEN OptionalHandlers ELSE {}

NeedsArg == {"openFile", "openUrl", "reloadPath", "clipboardWrite"}
Types    == NeedsArg \cup OptionalHandlers \cup {"bogus"}
\* The id of a message: NoId is an id that is absent or falsy (`!id`).
Ids      == {NoId, "r1"}
\* The payload field the case reads: "missing" is a field that is absent or
\* fails the case's test (payload?.path, typeof payload?.text === "string").
Args     == {"missing", "text"}

Messages ==
  {m \in [type : Types, id : Ids, arg : Args] :
     m.type \in NeedsArg \/ m.arg = "missing"}
NoMsg == [type |-> "none", id |-> NoId, arg |-> "missing"]

\* What readBody and JSON.parse make of a request body.
Bodies == {"readError", "invalid", "null", "object"}

VARIABLES
  server,             \* this.server: "null", "binding", "listening", "failed"
  port,               \* this.port
  keepaliveInterval,  \* this.keepaliveInterval is armed
  starting,           \* the createSession call awaiting the listen callback
  sessions,           \* the keys of this.sessions
  sess,               \* every Session object ever created, by id
  uuid,               \* the number of crypto.randomUUID() calls so far
  streams,            \* the ServerResponse of every accepted events request
  sends,              \* the accepted POST send requests
  now,                \* the clock: one tick per broadcastSSE call
  nevents,            \* requests to the events route so far
  nops,               \* other requests, pushes and keepalive ticks so far
  removed,            \* the ids removeSession has deleted
  calls,              \* how often http.createServer and setInterval were called
  last,               \* the call or HTTP exchange of this step, as seen from outside
  currentProcess,     \* this.currentProcess: a child, or Undefined
  currentConnection,  \* this.currentConnection: its port, or Undefined
  lastUsedPort,       \* this.lastUsedPort, or Undefined
  children,           \* every child process spawn() has returned
  launch,             \* the launchBackend call in flight, or the last one
  overlap,            \* a launchBackend call made while `launch` is in flight
  timers,             \* the force-kill timers terminate() armed, not yet fired:
                      \* for each, the child terminate() signalled, in arming order
  nlaunch,            \* launchBackend calls so far
  nterm,              \* terminate() calls from outside so far
  connection,         \* WebviewController: this.connection is set
  communicationBridge,\* this.communicationBridge is set
  loading,            \* load(): "none", "createSession" (awaited), "returned", "failed"
  disposed,           \* dispose() was called
  bridgeSessionId,    \* this.bridgeSessionId, or Null
  chatSessionId,      \* this.sessionId (the backend's chat session) is set
  chats,              \* every handleChatSend call: where it stands
  eventStreamRequest, \* this.eventStreamRequest: a request, or Undefined
  requests,           \* every http.get(eventUrl) made, with its response
  handled,            \* the events handed to handleServerEvent, in order
  posted,             \* the messages handed to communicationBridge.sendMessage
  removeCalls,        \* the ids handed to bridgeServer.removeSession
  nframes,            \* frames the backend has written so far
  wait                \* one parseConnectionInfo call, its child's output read in chunks

bridge == <<server, port, keepaliveInterval, starting, sessions, sess, uuid,
            streams, sends, now, nevents, nops, removed, calls, last>>

relay == <<connection, communicationBridge, loading, disposed,
          bridgeSessionId,
           chatSessionId, chats, eventStreamRequest, requests, handled, posted,
           removeCalls, nframes>>

backend == <<currentProcess, currentConnection, lastUsedPort, children,
             launch, overlap, timers, nlaunch, nterm, wait>>

vars == <<server, port, keepaliveInterval, starting, sessions, sess, uuid,
          streams, sends, now, nevents, nops, removed, calls, last,
          currentProcess, currentConnection, lastUsedPort, children,
          launch, overlap, timers, nlaunch, nterm,
          connection, communicationBridge, loading, disposed,
          bridgeSessionId,
          chatSessionId, chats, eventStreamRequest, requests, handled, posted,
          removeCalls, nframes, wait>>

\* ------------------------------------------------------------- SSE frames
\* res.write("event: connected\ndata: {}\n\n")
Connected ==
  [kind |-> "connected", replyTo |-> NoId, ok |-> "absent", error |-> "",
   payload |-> "", ts |-> 0]

\* client.write(": ping\n\n")
Ping ==
  [kind |-> "ping", replyTo |-> NoId, ok |-> "absent", error |-> "",
   payload |-> "", ts |-> 0]

\* `event: message` carrying {replyTo, ok, payload | error, timestamp}.
Envelope(id, ok, error, payload, t) ==
  [kind |-> "message", replyTo |-> id, ok |-> ok, error |-> error,
   payload |-> payload, ts |-> t]

\* `event: message` carrying a pushed {type, payload, timestamp}.
PushFrame(t) ==
  [kind |-> "message", replyTo |-> NoId, ok |-> "absent", error |-> "",
   payload |-> "push", ts |-> t]

\* Mutant of Falsy: the `if (!id) return` guard is missing.
FalsyNever(id) == FALSE

\* `if (!id) return`: undefined and the empty string are falsy.
Falsy(id) == id = NoId

\* replyOk: the frames it broadcasts (none without an id).
replyOk(id, t) ==
  IF Falsy(id) THEN <<>> ELSE <<Envelope(id, "true", "", "", t)>>

\* replyError: the frames it broadcasts (none without an id).
replyError(id, error, t) ==
  IF Falsy(id) THEN <<>> ELSE <<Envelope(id, "false", error, "", t)>>

\* The uiGetState branch: `if (id) this.broadcastSSE(... payload: {state})`.
replyState(id, t) ==
  IF Falsy(id) THEN <<>> ELSE <<Envelope(id, "true", "", "state", t)>>

\* ------------------------------------------------------- handleSend's switch
\* The guard of each case on the payload: payload?.path, payload?.url and
\* payload?.path must be truthy, payload?.text must be a string.
ArgOk(type, arg) == arg = "text"

MissingError(type) ==
  CASE type = "openUrl"        -> "Missing url"
    [] type = "clipboardWrite" -> "Missing text"
    [] OTHER                   -> "Missing path"

\* The switch on msg.type under the session's handlers: either a handler is
\* called (and awaited), or replyError is called at once.
Dispatch(handlers, m) ==
  CASE m.type \in NeedsArg ->
         IF ArgOk(m.type, m.arg)
           THEN [do |-> "call", error |-> ""]
           ELSE [do |-> "error", error |-> MissingError(m.type)]
    [] m.type \in OptionalHandlers ->
         IF m.type \in handlers
           THEN [do |-> "call", error |-> ""]
           ELSE [do |-> "error",
                 error |-> IF m.type = "uiGetState"
                             THEN "uiGetState not supported"
                             ELSE "uiSetState not supported"]
    [] OTHER -> [do |-> "error", error |-> "Unknown type"]

\* What follows a handler that resolved.
ReplyAfter(m, t) ==
  IF m.type = "uiGetState" THEN replyState(m.id, t) ELSE replyOk(m.id, t)

\* ------------------------------------------------------------ broadcastSSE
\* Mutant of BroadcastTargets: the frame goes to the subscribers of every
\* session.
BroadcastToAll(sid) == UNION {sess[i].sseClients : i \in DOMAIN sess}

\* The streams broadcastSSE iterates over.
BroadcastTargets(sid) == sess[sid].sseClients

\* Mutant of WriteTo: each target is written to twice.
WriteTwice(st, targets, frame, dead) ==
  [c \in DOMAIN st |->
     IF c \in targets
       THEN [st[c] EXCEPT !.writes = @ \o <<frame, frame>>,
                          !.state = IF c \in dead /\ @ = "open"
                                      THEN "dead" ELSE @,
                          !.ends = IF c \in dead THEN @ + 1 ELSE @]
       ELSE st[c]]

\* client.write(frame) on every target, and client.end() on every target
\* whose write threw (`dead`, the deadClients of the pass).  `writes` is the
\* sequence of frames handed to client.write, a write that threw included;
\* `ends` counts the end() calls on the stream.
WriteTo(st, targets, frame, dead) ==
  [c \in DOMAIN st |->
     IF c \in targets
       THEN [st[c] EXCEPT !.writes = Append(@, frame),
                          !.state = IF c \in dead /\ @ = "open"
                                      THEN "dead" ELSE @,
                          !.ends = IF c \in dead THEN @ + 1 ELSE @]
       ELSE st[c]]

\* broadcastSSE(session, frames) when the writes to `dead` throw: no frame,
\* no call.
BroadcastStreams(sid, frames, dead) ==
  IF frames = <<>> THEN streams
  ELSE WriteTo(streams, BroadcastTargets(sid), frames[1],
               dead \cap BroadcastTargets(sid))

BroadcastSess(sid, frames, dead) ==
  IF frames = <<>> THEN sess
  ELSE [sess EXCEPT ![sid].sseClients = @ \ (dead \cap BroadcastTargets(sid))]

\* ------------------------------------------------------------- observation
RECURSIVE SumWrites(_, _)
SumWrites(st, n) ==
  IF n = 0 THEN 0 ELSE Len(st[n].writes) + SumWrites(st, n - 1)

TotalWrites(st) == SumWrites(st, Len(st))

RECURSIVE SumEnds(_, _)
SumEnds(st, n) ==
  IF n = 0 THEN 0 ELSE st[n].ends + SumEnds(st, n - 1)

TotalEnds(st) == SumEnds(st, Len(st))

AllSubscribers(ss) == UNION {ss[i].sseClients : i \in DOMAIN ss}

NoObs ==
  [op |-> "none", sid |-> Garbage, tok |-> NoToken, path |-> "short",
   method |-> "GET", known |-> "never", status |-> 0, body |-> "none",
   msg |-> NoMsg, called |-> "none", outcome |-> "none", envelopes |-> 0,
   ts |-> 0, subs |-> {}, wrote |-> 0, added |-> {}, kept |-> TRUE,
   failed |-> {}, registered |-> {}, unregistered |-> {}, ended |-> 0,
   othersKept |-> TRUE]

Known(sid) ==
  IF sid \in removed THEN "removed"
  ELSE IF sid \in DOMAIN sess THEN "live" ELSE "never"

\* The exchange as its client and the session's subscribers saw it; the
\* counts compare the state before the step with the state after it.
Observe(req, known, status, body, m, called, outcome, subs) ==
  [op |-> "request", sid |-> req.sid, tok |-> req.tok, path |-> req.path,
   method |-> req.method, known |-> known, status |-> status,
   body |-> body, msg |-> m, called |-> called, outcome |-> outcome,
   envelopes |-> now' - now,
   ts |-> IF now' > now THEN now' ELSE 0,
   subs |-> subs,
   wrote |-> TotalWrites(streams') - TotalWrites(streams),
   added |-> AllSubscribers(sess') \ AllSubscribers(sess),
   kept |-> /\ sessions' = sessions
            /\ DOMAIN sess' = DOMAIN sess
            /\ \A i \in DOMAIN sess : sess'[i].sseClients = sess[i].sseClients,
   failed |-> {},
   registered |-> sessions' \ sessions,
   unregistered |-> sessions \ sessions',
   ended |-> TotalEnds(streams') - TotalEnds(streams),
   othersKept |-> \A i \in DOMAIN sess \ {req.sid} :
                    /\ sess'[i] = sess[i]
                    /\ i \in sessions <=> i \in sessions']

\* A call of a public method (createSession, removeSession, send) or a
\* keepalive tick, seen the same way: it returned, and `subs` is the
\* subscriber set it found.
CallObs(op, sid, subs) ==
  [Observe([sid |-> sid, tok |-> NoToken, path |-> "none", method |-> "none"],
           Known(sid), 0, "none", NoMsg, "none", "returned", subs)
     EXCEPT !.op = op]

\* ------------------------------------------------- the launcher's values
\* An optional field that is not set (a process, a connection, a port).
Undefined == 0

\* const priorityPorts = [4096, 60189, 43665, 40499]
PriorityPorts == <<4096, 60189, 43665, 40499>>

\* The URLs a child announces: `port` is the port written in the URL, or
\* Undefined when the URL has none.
Urls ==
  {[protocol |-> "http:",  port |-> 4096],
   [protocol |-> "http:",  port |-> 80],
   [protocol |-> "http:",  port |-> Undefined],
   [protocol |-> "https:", port |-> Undefined]}
NoUrl == [protocol |-> "none", port |-> Undefined]

\* The port findBackendByProcess reads from lsof or ps, if any.
ProcessPorts == {Undefined, 5000}

NoResult == [kind |-> "none", port |-> Undefined, process |-> Undefined,
             reused |-> FALSE]

\* No launchBackend call was made yet.
Idle ==
  [pc |-> "idle", forceNew |-> FALSE, custom |-> FALSE, order |-> <<>>,
   responders |-> {}, processPort |-> Undefined, spawned |-> <<>>,
   ignored |-> 0, failures |-> <<>>, result |-> NoResult]

\* ---------------------------------------------------- the relay's values
\* private bridgeSessionId: string | null = null
Null == 0

\* No parseConnectionInfo call was made.
NoWait ==
  [pc |-> "none", unwritten |-> <<>>, stdoutData |-> <<>>, stderrData |-> 0,
   resolved |-> FALSE, timeout |-> "none", exited |-> FALSE,
   errored |-> FALSE, calls |-> <<>>]

\* ------------------------------------------------------------------- Init
Init ==
  /\ server = "null"
  /\ port = 0
  /\ keepaliveInterval = FALSE
  /\ starting = <<>>
  /\ sessions = {}
  /\ sess = <<>>
  /\ uuid = 0
  /\ streams = <<>>
  /\ sends = <<>>
  /\ now = 0
  /\ nevents = 0
  /\ nops = 0
  /\ removed = {}
  /\ calls = [createServer |-> 0, setInterval |-> 0]
  /\ last = NoObs
  /\ currentProcess = Undefined
  /\ currentConnection = Undefined
  /\ lastUsedPort = Undefined
  /\ children = <<>>
  /\ launch = Idle
  /\ overlap = Idle
  /\ timers = <<>>
  /\ nlaunch = 0
  /\ nterm = 0
  /\ connection = FALSE
  /\ communicationBridge = FALSE
  /\ loading = "none"
  /\ disposed = FALSE
  /\ bridgeSessionId = Null
  /\ chatSessionId = FALSE
  /\ chats = <<>>
  /\ eventStreamRequest = Undefined
  /\ requests = <<>>
  /\ handled = <<>>
  /\ posted = <<>>
  /\ removeCalls = <<>>
  /\ nframes = 0
  /\ wait = NoWait

\* ---------------------------------------------------- start, createSession
\* Mutant of RegistryAfterCreate: this.sessions.set is missing.
RegistryAfterCreateNone(sid) == sessions

\* this.sessions.set(sessionId, ...)
RegistryAfterCreate(sid) == sessions \cup {sid}

\* The body of createSession after `await this.start()`: two randomUUID
\* calls, this.sessions.set, and the baseUrl built from this.port as it is.
\* The call returns sessionId and token.
Register(handlers, p) ==
  LET sessionId == uuid + 1
      token     == uuid + 2
  IN /\ uuid' = uuid + 2
     /\ sess' = sess @@ (sessionId :>
                  [token |-> token, handlers |-> handlers,
                   sseClients |-> {}, baseUrlPort |-> p])
     /\ sessions' = RegistryAfterCreate(sessionId)
     /\ last' = [CallObs("create", sessionId, {}) EXCEPT !.tok = token]

Created == Cardinality(DOMAIN sess) + Len(starting)

\* Mutant of Started: start() returns at once only when the server listens.
StartedWhenListening == server = "listening"

\* `if (this.server) return` in start().
Started == server # "null"

\* createSession when this.server is null: start() creates the server, calls
\* listen and the caller waits for the listen callback.
createSessionStart ==
  /\ ~Started
  /\ Created < MaxSessions
  /\ server' = "binding"
  /\ calls' = [calls EXCEPT !.createServer = @ + 1]
  /\ UNCHANGED <<backend, relay>>
  /\ starting' = <<HandlersOf(1)>>
  /\ UNCHANGED <<port, keepaliveInterval, sessions, sess, uuid, streams,
                 sends, now, nevents, nops, removed>>
  /\ last' = NoObs

\* The listen callback: the port is read, the keepalive timer is armed
\* (`if (!this.keepaliveInterval)`) and the waiting createSession call
\* resumes.
listenCallback ==
  /\ server = "binding"
  /\ server' = "listening"
  /\ port' = ListenPort
  /\ keepaliveInterval' = TRUE
  /\ calls' = [calls EXCEPT !.setInterval =
                 IF keepaliveInterval THEN @ ELSE @ + 1]
  /\ UNCHANGED <<backend, relay>>
  /\ starting' = <<>>
  /\ UNCHANGED <<streams, sends, now, nevents, nops, removed>>
  /\ Register(starting[1], ListenPort)

\* The server's "error" event while binding: start() rejects, createSession
\* rejects with it, and this.server stays set.
listenError ==
  /\ server = "binding"
  /\ server' = "failed"
  /\ starting' = <<>>
  /\ UNCHANGED <<port, keepaliveInterval, sessions, sess, uuid, streams,
                 sends, now, nevents, nops, removed>>
  /\ UNCHANGED <<calls, backend, relay>>
  /\ last' = NoObs

\* createSession when this.server is set: start() returns at once.
createSession ==
  /\ Started
  /\ Created < MaxSessions
  /\ UNCHANGED <<server, port, keepaliveInterval, starting, streams, sends,
                 now, nevents, nops, removed>>
  /\ UNCHANGED <<calls, backend, relay>>
  /\ Register(HandlersOf(Created + 1), port)

\* ------------------------------------------------------------ removeSession
\* Mutant of EndAll: no stream is ended.
EndNone(st, targets) == st

\* session.sseClients.forEach((res) => res.end())
EndAll(st, targets) ==
  [c \in DOMAIN st |->
     IF c \in targets
       THEN [st[c] EXCEPT !.state = IF @ = "open" THEN "ended" ELSE @,
                          !.ends = @ + 1]
       ELSE st[c]]

\* Mutant of RegistryAfterRemove: the entry is not deleted.
RegistryKept(sid) == sessions

\* this.sessions.delete(sessionId)
RegistryAfterRemove(sid) == sessions \ {sid}

\* A call that finds no session counts against MaxOps.
removeSession(sid) ==
  /\ IF sid \in sessions
       THEN /\ streams' = EndAll(streams, sess[sid].sseClients)
            /\ sessions' = RegistryAfterRemove(sid)
            /\ removed' = removed \cup {sid}
            /\ nops' = nops
       ELSE /\ nops < MaxOps
            /\ nops' = nops + 1
            /\ UNCHANGED <<streams, sessions, removed>>
  /\ UNCHANGED <<server, port, keepaliveInterval, starting, sess, uuid,
                 sends, now, nevents>>
  /\ UNCHANGED <<calls, backend, relay>>
  /\ last' = CallObs("remove", sid,
                     IF sid \in sessions THEN sess[sid].sseClients ELSE {})

\* ------------------------------------------------------- send (server push)
\* Mutant of SendTarget: the session object of a removed id is still found.
SendTargetStale(sid) == sid \in DOMAIN sess

\* `const session = this.sessions.get(sessionId); if (!session) return`
SendTarget(sid) == sid \in sessions

\* `budget` bounds the calls and requests made before this one.
sendWithin(sid, dead, budget) ==
  /\ nops < budget
  /\ nops' = nops + 1
  /\ IF SendTarget(sid)
       THEN /\ dead \subseteq BroadcastTargets(sid)
            /\ now' = now + 1
            /\ streams' = BroadcastStreams(sid, <<PushFrame(now + 1)>>, dead)
            /\ sess' = BroadcastSess(sid, <<PushFrame(now + 1)>>, dead)
       ELSE /\ dead = {}
            /\ UNCHANGED <<now, streams, sess>>
  /\ UNCHANGED <<server, port, keepaliveInterval, starting, sessions, uuid,
                 sends, nevents, removed>>
  /\ UNCHANGED <<calls, backend, relay>>
  /\ last' = CallObs("push", sid,
                     IF sid \in sessions THEN sess[sid].sseClients ELSE {})

send(sid, dead) == sendWithin(sid, dead, MaxOps)

\* ------------------------------------------------------ sendKeepaliveToAll
\* The streams a tick writes to: the subscribers of the registered sessions.
KeepaliveTargets == UNION {sess[i].sseClients : i \in sessions}

\* Mutant of KeepaliveSurvivors: one failed write empties the set.
KeepaliveSurvivorsNone(clients, dead) ==
  IF clients \cap dead = {} THEN clients ELSE {}

\* deadClients.forEach((client) => session.sseClients.delete(client))
KeepaliveSurvivors(clients, dead) == clients \ dead

sendKeepaliveToAll(dead) ==
  /\ keepaliveInterval
  /\ nops < MaxOps
  /\ dead \subseteq KeepaliveTargets
  /\ nops' = nops + 1
  /\ streams' = WriteTo(streams, KeepaliveTargets, Ping, dead)
  /\ sess' = [i \in DOMAIN sess |->
                IF i \in sessions
                  THEN [sess[i] EXCEPT !.sseClients =
                          KeepaliveSurvivors(@, dead)]
                  ELSE sess[i]]
  /\ UNCHANGED <<server, port, keepaliveInterval, starting, sessions, uuid,
                 sends, now, nevents, removed>>
  /\ UNCHANGED <<calls, backend, relay>>
  /\ last' = [CallObs("tick", Garbage, KeepaliveTargets)
                EXCEPT !.failed = dead]

\* ------------------------------------------------------------ handleRequest
\* Mutant of Authorized: the token is not compared.
AuthorizedAnyToken(sid, tok) == sid \in sessions

\* `!session || session.token !== token` is the negation of this.
Authorized(sid, tok) == sid \in sessions /\ sess[sid].token = tok

\* handleRequest up to the call it ends in, for a request
\* [sid, tok, path, method].
Route(req) ==
  IF req.method = "OPTIONS" THEN "204"
  ELSE IF req.path = "short" THEN "404"
  ELSE IF ~Authorized(req.sid, req.tok) THEN "401"
  ELSE CASE req.path = "events" -> "handleSSE"
         [] req.path = "send"   -> IF req.method = "POST"
                                     THEN "handleSend" ELSE "405"
         [] OTHER               -> "404"

StatusOf(route) ==
  CASE route = "204" -> 204
    [] route = "404" -> 404
    [] route = "401" -> 401
    [] route = "405" -> 405

\* The requests a client can make once sessions exist.
\* The preflight and the short path are answered before the session id and
\* the token are read: they are sent without a token.
Requests ==
  {r \in {[sid |-> i, tok |-> t, path |-> l.path, method |-> l.method] :
            i \in DOMAIN sess \cup {Garbage},
            t \in {NoToken, Garbage} \cup {sess[j].token : j \in DOMAIN sess},
            l \in Lines} :
     (r.method = "OPTIONS" \/ r.path = "short") => r.tok = NoToken}

\* Every request counts against the bound of its kind.
Budget(req) ==
  IF req.path = "events"
    THEN nevents < MaxEvents /\ nevents' = nevents + 1 /\ nops' = nops
    ELSE nops < MaxOps /\ nops' = nops + 1 /\ nevents' = nevents

\* A request answered inside handleRequest (204, 404, 401) or by
\* handleSend's method check (405).
requestRejected(req) ==
  /\ server = "listening"
  /\ Route(req) \in {"204", "404", "401", "405"}
  /\ Budget(req)
  /\ UNCHANGED <<server, port, keepaliveInterval, starting, sessions, sess,
                 uuid, streams, sends, now, removed>>
  /\ UNCHANGED <<calls, backend, relay>>
  /\ last' = Observe(req, Known(req.sid), StatusOf(Route(req)), "none",
                     NoMsg, "none", "none", {})

\* ---------------------------------------------------------------- handleSSE
\* Mutant of InitialFrames: the message frames an earlier subscriber of the
\* session was sent are replayed to the new one.
InitialFramesWithBacklog(sid) ==
  LET cs == {c \in DOMAIN streams : streams[c].sid = sid}
  IN <<Connected>> \o
     (IF cs = {} THEN <<>>
      ELSE SelectSeq(streams[CHOOSE c \in cs : TRUE].writes,
                     LAMBDA f : f.kind = "message"))

\* The frames handleSSE writes to the new response.
InitialFrames(sid) == <<Connected>>

handleSSE(req) ==
  /\ server = "listening"
  /\ Route(req) = "handleSSE"
  /\ Budget(req)
  /\ LET c == Len(streams) + 1
     IN /\ streams' = Append(streams,
                        [sid |-> req.sid, writes |-> InitialFrames(req.sid),
                         state |-> "open", regAt |-> now, ends |-> 0])
        /\ sess' = [sess EXCEPT ![req.sid].sseClients = @ \cup {c}]
  /\ UNCHANGED <<server, port, keepaliveInterval, starting, sessions, uuid,
                 sends, now, removed>>
  /\ UNCHANGED <<calls, backend, relay>>
  /\ last' = Observe(req, Known(req.sid), 200, "none", NoMsg, "none",
                     "none", {})

\* Mutant of SubscribersAfterClose: the close handler deletes nothing.
SubscribersKept(sid, c) == sess[sid].sseClients

\* req.on("close", () => session.sseClients.delete(res))
SubscribersAfterClose(sid, c) == sess[sid].sseClients \ {c}

transportClose(c) ==
  /\ c \in DOMAIN streams
  /\ streams[c].state # "closed"
  /\ streams' = [streams EXCEPT ![c].state = "closed"]
  /\ sess' = [sess EXCEPT ![streams[c].sid].sseClients =
                SubscribersAfterClose(streams[c].sid, c)]
  /\ UNCHANGED <<server, port, keepaliveInterval, starting, sessions, uuid,
                 sends, now, nevents, nops, removed>>
  /\ UNCHANGED <<calls, backend, relay>>
  /\ last' = NoObs

\* --------------------------------------------------------------- handleSend
\* handleSend up to `await this.readBody(req)`.
handleSendBegin(req) ==
  /\ server = "listening"
  /\ Route(req) = "handleSend"
  /\ Budget(req)
  /\ sends' = Append(sends, [sid |-> req.sid, tok |-> req.tok,
                             known |-> Known(req.sid),
                             phase |-> "reading", msg |-> NoMsg])
  /\ UNCHANGED <<server, port, keepaliveInterval, starting, sessions, sess,
                 uuid, streams, now, removed>>
  /\ UNCHANGED <<calls, backend, relay>>
  /\ last' = NoObs

SendReq(r) ==
  [sid |-> sends[r].sid, tok |-> sends[r].tok, path |-> "send",
   method |-> "POST"]

\* The end of handleSend: the frames of the reply (if any) are broadcast to
\* the session object the request was routed to, and the response is ended
\* with `status`.
Finish(r, status, body, m, called, outcome, frames, dead) ==
  LET sid == sends[r].sid
  IN /\ dead \subseteq (IF frames = <<>> THEN {} ELSE BroadcastTargets(sid))
     /\ sends' = [sends EXCEPT ![r].phase = "done", ![r].msg = NoMsg]
     /\ now' = IF frames = <<>> THEN now ELSE now + 1
     /\ streams' = BroadcastStreams(sid, frames, dead)
     /\ sess' = BroadcastSess(sid, frames, dead)
     /\ UNCHANGED <<server, port, keepaliveInterval, starting, sessions,
                    uuid, nevents, nops, removed>>
     /\ UNCHANGED <<calls, backend, relay>>
     /\ last' = Observe(SendReq(r), sends[r].known, status, body, m, called,
                        outcome, sess[sid].sseClients)

\* Mutants of SendStatus: the catch block answers 204 too; the try block
\* answers 400 too.
SendStatusAlways204(threw) == 204
SendStatusAlways400(threw) == 400

\* The status handleSend answers with: 204 at the end of the try block
\* (`threw` is FALSE), 400 in the catch block.
SendStatus(threw) == IF threw THEN 400 ELSE 204

\* readBody rejects, JSON.parse throws, or the body is the JSON null, whose
\* destructuring throws: the catch block answers 400.
bodyRejected(r, body) ==
  /\ r \in DOMAIN sends
  /\ sends[r].phase = "reading"
  /\ body \in Bodies \ {"object"}
  /\ Finish(r, SendStatus(TRUE), body, NoMsg, "none", "none", <<>>, {})

\* The body is a JSON object and the switch ends in replyError.
dispatchError(r, m, dead) ==
  /\ r \in DOMAIN sends
  /\ sends[r].phase = "reading"
  /\ LET d == Dispatch(sess[sends[r].sid].handlers, m)
     IN /\ d.do = "error"
        /\ Finish(r, SendStatus(FALSE), "object", m, "none", "none",
                  replyError(m.id, d.error, now + 1), dead)

\* The body is a JSON object and the switch calls a handler and awaits it.
dispatchCall(r, m) ==
  /\ r \in DOMAIN sends
  /\ sends[r].phase = "reading"
  /\ Dispatch(sess[sends[r].sid].handlers, m).do = "call"
  /\ sends' = [sends EXCEPT ![r].phase = "awaiting", ![r].msg = m]
  /\ UNCHANGED <<server, port, keepaliveInterval, starting, sessions, sess,
                 uuid, streams, now, nevents, nops, removed>>
  /\ UNCHANGED <<calls, backend, relay>>
  /\ last' = NoObs

\* The awaited handler resolves: the reply is broadcast, the answer is 204.
handlerResolves(r, dead) ==
  /\ r \in DOMAIN sends
  /\ sends[r].phase = "awaiting"
  /\ Finish(r, SendStatus(FALSE), "object", sends[r].msg,
            sends[r].msg.type, "resolved",
            ReplyAfter(sends[r].msg, now + 1), dead)

\* Mutant of FramesOnThrow: the catch block replies with an error envelope.
FramesOnThrowReply(m, t) == replyError(m.id, "handler failed", t)

\* The frames handleSend broadcasts when the awaited handler throws: the
\* catch block broadcasts nothing.
FramesOnThrow(m, t) == <<>>

\* The awaited handler throws (its promise rejects): the catch block.
handlerRejects(r) ==
  /\ r \in DOMAIN sends
  /\ sends[r].phase = "awaiting"
  /\ Finish(r, SendStatus(TRUE), "object", sends[r].msg,
            sends[r].msg.type, "rejected",
            FramesOnThrow(sends[r].msg, now + 1), {})

\* ------------------------------------------------------------------- Next
Next ==
  \/ createSessionStart
  \/ listenCallback
  \/ listenError
  \/ createSession
  \/ \E sid \in DOMAIN sess \cup {Garbage} : removeSession(sid)
  \/ \E sid \in DOMAIN sess \cup {Garbage}, dead \in SUBSET DOMAIN streams :
       send(sid, dead)
  \/ \E dead \in SUBSET DOMAIN streams : sendKeepaliveToAll(dead)
  \/ \E req \in Requests : requestRejected(req)
  \/ \E req \in Requests : handleSSE(req)
  \/ \E c \in DOMAIN streams : transportClose(c)
  \/ \E req \in Requests : handleSendBegin(req)
  \/ \E r \in DOMAIN sends, b \in Bodies : bodyRejected(r, b)
  \/ \E r \in DOMAIN sends, m \in Messages, dead \in SUBSET DOMAIN streams :
       dispatchError(r, m, dead)
  \/ \E r \in DOMAIN sends, m \in Messages : dispatchCall(r, m)
  \/ \E r \in DOMAIN sends, dead \in SUBSET DOMAIN streams :
       handlerResolves(r, dead)
  \/ \E r \in DOMAIN sends : handlerRejects(r)

Spec == Init /\ [][Next]_vars

\* The fan-out of broadcasts that follow one another: sessions, their
\* subscribers coming and going, pushes, and a send request whose handler
\* resolves.
FanoutNext ==
  \/ createSessionStart
  \/ listenCallback
  \/ createSession
  \/ \E sid \in DOMAIN sess : removeSession(sid)
  \/ \E sid \in DOMAIN sess, dead \in SUBSET DOMAIN streams :
       sendWithin(sid, dead, MaxPushes)
  \/ \E req \in Requests : handleSSE(req)
  \/ \E c \in DOMAIN streams : transportClose(c)
  \/ \E req \in Requests : handleSendBegin(req)
  \/ \E r \in DOMAIN sends, m \in Messages : dispatchCall(r, m)
  \/ \E r \in DOMAIN sends, dead \in SUBSET DOMAIN streams :
       handlerResolves(r, dead)

FanoutSpec == Init /\ [][FanoutNext]_vars

\* =========================================================== BackendLauncher
Range(q) == {q[i] : i \in DOMAIN q}

\* Mutant of ProbeOrder: push in place of unshift.
ProbeOrderPushed(lup) ==
  IF lup # Undefined /\ lup \notin Range(PriorityPorts)
    THEN PriorityPorts \o <<lup>>
    ELSE PriorityPorts

\* The ports findExistingBackend probes, in order: the priority ports, with
\* this.lastUsedPort put first when it is set and is none of them.
ProbeOrder(lup) ==
  IF lup # Undefined /\ lup \notin Range(PriorityPorts)
    THEN <<lup>> \o PriorityPorts
    ELSE PriorityPorts

\* Mutant of FirstResponder: the loop does not stop at the first answer.
RECURSIVE LastResponder(_, _)
LastResponder(order, responders) ==
  IF order = <<>> THEN Undefined
  ELSE IF order[Len(order)] \in responders THEN order[Len(order)]
  ELSE LastResponder(SubSeq(order, 1, Len(order) - 1), responders)

\* `for (const port of priorityPorts)`: the first port whose probe resolves
\* with a result (status 200), or Undefined when none does.
RECURSIVE FirstResponder(_, _)
FirstResponder(order, responders) ==
  IF order = <<>> THEN Undefined
  ELSE IF Head(order) \in responders THEN Head(order)
  ELSE FirstResponder(Tail(order), responders)

\* serverUrl.port: a URL object drops the port that is its scheme's default.
UrlPortField(u) ==
  IF u.port = (IF u.protocol = "https:" THEN 443 ELSE 80)
    THEN Undefined ELSE u.port

\* Mutant of inferredPort: the scheme is not looked at.
inferredPortHttp(u) ==
  IF UrlPortField(u) # Undefined THEN UrlPortField(u) ELSE 80

\* serverUrl.port ? Number(serverUrl.port)
\*                : serverUrl.protocol === "https:" ? 443 : 80
inferredPort(u) ==
  IF UrlPortField(u) # Undefined THEN UrlPortField(u)
  ELSE IF u.protocol = "https:" THEN 443 ELSE 80

\* Mutant of buildCommandArgs: skipCustomCommand is not looked at.
buildCommandArgsAlwaysCustom(custom, skipCustomCommand) ==
  <<"serve", "--cors", "*">> \o (IF custom THEN <<"extra">> ELSE <<>>)

\* The arguments after the binary path; `custom` says that the
\* opencode.customCommand setting holds something, "extra" stands for its
\* parsed arguments.
buildCommandArgs(custom, skipCustomCommand) ==
  <<"serve", "--cors", "*">> \o
  (IF ~skipCustomCommand /\ custom THEN <<"extra">> ELSE <<>>)

\* The ChildProcess spawn() returns; `shared` says that the spawning branch
\* assigns it to this.currentProcess.
NewChild(args, shared) ==
  [args |-> args, shared |-> shared, alive |-> TRUE, killed |-> FALSE,
   signals |-> <<>>, handlers |-> FALSE, announced |-> NoUrl]

\* child.kill(sig): `signals` are the kill calls, `killed` is set when the
\* signal was delivered.
Kill(ch, c, sig) ==
  [ch EXCEPT ![c].signals = Append(@, sig), ![c].killed = @ \/ ch[c].alive]

\* isRunning()
isRunning ==
  currentProcess # Undefined /\ ~children[currentProcess].killed

\* terminate(): what it makes of the children, of the timers and of the
\* shared connection.
TerminatedChildren ==
  IF currentProcess # Undefined
    THEN Kill(children, currentProcess, "SIGTERM") ELSE children
TerminatedTimers ==
  IF currentProcess # Undefined THEN Append(timers, currentProcess) ELSE timers
TerminatedConnection ==
  IF currentProcess # Undefined THEN Undefined ELSE currentConnection

\* The child whose announcement the call l waits for.
AwaitedBy(l) == l.spawned[Len(l.spawned)]

\* A call that waits in parseConnectionInfo.
Parsing(l) == l.pc \in {"parsing", "parsingFallback"}

\* Mutant of Settled: the call stays where it is.
SettledNever(l, result) == l

\* The call returns `result` or throws.
Settled(l, result) ==
  [l EXCEPT !.pc = "done", !.ignored = 0, !.result = result]

Failed == [kind |-> "error", port |-> Undefined, process |-> Undefined,
           reused |-> FALSE]

\* The catch block of launchBackend: the retry when a custom command is
\* configured, the error otherwise.
CatchIn(l, reason) ==
  IF l.custom
    THEN [l EXCEPT !.pc = "fallback", !.failures = Append(@, reason)]
    ELSE Settled([l EXCEPT !.failures = Append(@, reason)], Failed)

\* The catch block of launchBackendFallback, rethrown by launchBackend.
CatchFallbackIn(l, reason) ==
  Settled([l EXCEPT !.failures = Append(@, reason)], Failed)

\* A launchBackend call begins: with forceNew it goes to extractBinary, else
\* to findExistingBackend.
launchBackendStep(l, lp, forceNew, custom) ==
  /\ l.pc \in {"idle", "done"}
  /\ nlaunch < MaxLaunches
  /\ nlaunch' = nlaunch + 1
  /\ lp = [Idle EXCEPT !.pc = IF forceNew THEN "extract" ELSE "probing",
                        !.forceNew = forceNew, !.custom = custom]
  /\ UNCHANGED <<currentProcess, currentConnection, lastUsedPort, children,
                 timers, nterm>>
  /\ UNCHANGED <<bridge, relay, wait>>

\* findExistingBackend returns and launchBackend goes on to its next await:
\* a port answered, or process inspection named a port, or the running
\* shared process is handed back, or a backend has to be started.
findExistingBackendStep(l, lp, responders, processPort) ==
  /\ l.pc = "probing"
  /\ LET order == ProbeOrder(lastUsedPort)
         found == FirstResponder(order, responders)
         p     == IF found # Undefined THEN found ELSE processPort
         seen  == [l EXCEPT !.order = order, !.responders = responders,
                            !.processPort = processPort]
     IN /\ responders \subseteq Range(order)
        /\ Cardinality(responders) <= MaxResponders
        /\ found # Undefined => processPort = Undefined
        /\ IF p # Undefined
             THEN /\ lastUsedPort' = p
                  /\ lp = Settled(seen,
                       [kind |-> "connection", port |-> p,
                        process |-> Undefined, reused |-> TRUE])
             ELSE /\ lastUsedPort' = lastUsedPort
                  /\ lp =
                       IF /\ currentProcess # Undefined
                          /\ currentConnection # Undefined
                          /\ isRunning
                         THEN Settled(seen,
                                [kind |-> "connection",
                                 port |-> currentConnection,
                                 process |-> currentProcess,
                                 reused |-> FALSE])
                         ELSE [seen EXCEPT !.pc = "extract"]
  /\ UNCHANGED <<currentProcess, currentConnection, children, timers,
                 nlaunch, nterm>>
  /\ UNCHANGED <<bridge, relay, wait>>

\* extractBinary throws, in launchBackend or in launchBackendFallback.
extractBinaryFailsStep(l, lp) ==
  /\ l.pc \in {"extract", "fallback"}
  /\ lp = IF l.pc = "extract"
            THEN CatchIn(l, "extract") ELSE CatchFallbackIn(l, "extract")
  /\ UNCHANGED <<currentProcess, currentConnection, lastUsedPort, children,
                 timers, nlaunch, nterm>>
  /\ UNCHANGED <<bridge, relay, wait>>

\* extractBinary returns in launchBackend: with forceNew the child is
\* spawned and nothing else; otherwise terminate() is called, the child is
\* spawned and becomes this.currentProcess.
spawnBackendStep(l, lp) ==
  /\ l.pc = "extract"
  /\ LET args == buildCommandArgs(l.custom, FALSE)
         c    == Len(children) + 1
     IN IF l.forceNew
          THEN /\ children' = Append(children, NewChild(args, FALSE))
               /\ UNCHANGED <<currentProcess, currentConnection, timers>>
          ELSE /\ children' = Append(TerminatedChildren, NewChild(args, TRUE))
               /\ timers' = TerminatedTimers
               /\ currentConnection' = TerminatedConnection
               /\ currentProcess' = c
  /\ lp = [l EXCEPT !.pc = "parsing", !.ignored = 0,
                     !.spawned = Append(@, Len(children) + 1)]
  /\ UNCHANGED <<lastUsedPort, nlaunch, nterm>>
  /\ UNCHANGED <<bridge, relay, wait>>

\* extractBinary returns in launchBackendFallback: the child is spawned with
\* the custom command skipped and becomes this.currentProcess.
launchBackendFallbackStep(l, lp) ==
  /\ l.pc = "fallback"
  /\ children' = Append(children,
                        NewChild(buildCommandArgs(l.custom, TRUE), TRUE))
  /\ currentProcess' = Len(children) + 1
  /\ lp = [l EXCEPT !.pc = "parsingFallback", !.ignored = 0,
                     !.spawned = Append(@, Len(children) + 1)]
  /\ UNCHANGED <<currentConnection, lastUsedPort, timers, nlaunch, nterm>>
  /\ UNCHANGED <<bridge, relay, wait>>

\* The awaited child writes a line in which no announcement is recognised:
\* it is added to the stdoutData of this wait.
stdoutIgnoredStep(l, lp) ==
  /\ Parsing(l)
  /\ children[AwaitedBy(l)].alive
  /\ l.ignored < MaxLines
  /\ lp = [l EXCEPT !.ignored = @ + 1]
  /\ UNCHANGED <<currentProcess, currentConnection, lastUsedPort, children,
                 timers, nlaunch, nterm>>
  /\ UNCHANGED <<bridge, relay, wait>>

\* The awaited child announces `url`: parseConnectionInfo resolves,
\* setupErrorHandling installs the exit handler, and, except in the forceNew
\* branch, the connection and the port are cached.
parseConnectionInfoResolvesStep(l, lp, url) ==
  /\ Parsing(l)
  /\ children[AwaitedBy(l)].alive
  /\ LET p == inferredPort(url)
     IN /\ children' = [children EXCEPT ![AwaitedBy(l)].announced = url,
                                        ![AwaitedBy(l)].handlers = TRUE]
        /\ IF l.pc = "parsing" /\ l.forceNew
             THEN UNCHANGED <<currentConnection, lastUsedPort>>
             ELSE /\ currentConnection' = p
                  /\ lastUsedPort' = p
        /\ lp = Settled(l, [kind |-> "connection", port |-> p,
                            process |-> AwaitedBy(l), reused |-> FALSE])
  /\ UNCHANGED <<currentProcess, timers, nlaunch, nterm>>
  /\ UNCHANGED <<bridge, relay, wait>>

\* parseConnectionInfo rejects: the 300 s timeout, the child's "error" event
\* (it could not be started) or its exit.
parseConnectionInfoRejectsStep(l, lp, reason) ==
  /\ Parsing(l)
  /\ reason \in {"timeout", "error", "exit"}
  /\ children[AwaitedBy(l)].alive
  /\ children' = IF reason = "timeout" THEN children
                 ELSE [children EXCEPT ![AwaitedBy(l)].alive = FALSE]
  /\ lp = IF l.pc = "parsing"
            THEN CatchIn(l, reason) ELSE CatchFallbackIn(l, reason)
  /\ UNCHANGED <<currentProcess, currentConnection, lastUsedPort, timers,
                 nlaunch, nterm>>
  /\ UNCHANGED <<bridge, relay, wait>>

\* The steps of the call `launch`.
Awaited == AwaitedBy(launch)
Catch(reason) == CatchIn(launch, reason)
CatchFallback(reason) == CatchFallbackIn(launch, reason)

launchBackend(forceNew, custom) ==
  launchBackendStep(launch, launch', forceNew, custom) /\ UNCHANGED overlap

findExistingBackend(responders, processPort) ==
  /\ findExistingBackendStep(launch, launch', responders, processPort)
  /\ UNCHANGED overlap

extractBinaryFails ==
  extractBinaryFailsStep(launch, launch') /\ UNCHANGED overlap

spawnBackend == spawnBackendStep(launch, launch') /\ UNCHANGED overlap

launchBackendFallback ==
  launchBackendFallbackStep(launch, launch') /\ UNCHANGED overlap

stdoutIgnored == stdoutIgnoredStep(launch, launch') /\ UNCHANGED overlap

parseConnectionInfoResolves(url) ==
  parseConnectionInfoResolvesStep(launch, launch', url) /\ UNCHANGED overlap

parseConnectionInfoRejects(reason) ==
  parseConnectionInfoRejectsStep(launch, launch', reason) /\ UNCHANGED overlap

\* The steps of the call `overlap`: launchBackend is async and keeps no
\* promise of the call in flight, so a second call runs the same code while
\* the first one waits.
launchBackendOverlapping(forceNew, custom) ==
  /\ launch.pc \notin {"idle", "done"}
  /\ launchBackendStep(overlap, overlap', forceNew, custom)
  /\ UNCHANGED launch

findExistingBackendOverlapping(responders, processPort) ==
  /\ findExistingBackendStep(overlap, overlap', responders, processPort)
  /\ UNCHANGED launch

extractBinaryFailsOverlapping ==
  extractBinaryFailsStep(overlap, overlap') /\ UNCHANGED launch

spawnBackendOverlapping ==
  spawnBackendStep(overlap, overlap') /\ UNCHANGED launch

launchBackendFallbackOverlapping ==
  launchBackendFallbackStep(overlap, overlap') /\ UNCHANGED launch

stdoutIgnoredOverlapping ==
  stdoutIgnoredStep(overlap, overlap') /\ UNCHANGED launch

parseConnectionInfoResolvesOverlapping(url) ==
  parseConnectionInfoResolvesStep(overlap, overlap', url) /\ UNCHANGED launch

parseConnectionInfoRejectsOverlapping(reason) ==
  parseConnectionInfoRejectsStep(overlap, overlap', reason) /\ UNCHANGED launch

\* terminate(), called by the extension.
terminate ==
  /\ nterm < MaxTerminates
  /\ nterm' = nterm + 1
  /\ children' = TerminatedChildren
  /\ timers' = TerminatedTimers
  /\ currentConnection' = TerminatedConnection
  /\ currentProcess' = Undefined
  /\ UNCHANGED <<lastUsedPort, launch, overlap, nlaunch>>
  /\ UNCHANGED <<bridge, relay, wait>>

\* The timer terminate() armed fires after 5 s:
\* `if (this.currentProcess && !this.currentProcess.killed)` kill("SIGKILL").
forceKillTimer ==
  /\ timers # <<>>
  /\ timers' = Tail(timers)
  /\ children' = IF isRunning
                   THEN Kill(children, currentProcess, "SIGKILL")
                   ELSE children
  /\ UNCHANGED <<currentProcess, currentConnection, lastUsedPort, launch,
                 overlap, nlaunch, nterm>>
  /\ UNCHANGED <<bridge, relay, wait>>

\* A child that no call waits for exits; the exit handler of
\* setupErrorHandling, if installed, clears the shared handle and connection
\* when the handle is this child.
childExit(c) ==
  /\ c \in DOMAIN children
  /\ children[c].alive
  /\ ~(Parsing(launch) /\ c = Awaited)
  /\ ~(Parsing(overlap) /\ c = AwaitedBy(overlap))
  /\ children' = [children EXCEPT ![c].alive = FALSE]
  /\ IF children[c].handlers /\ currentProcess = c
       THEN currentProcess' = Undefined /\ currentConnection' = Undefined
       ELSE UNCHANGED <<currentProcess, currentConnection>>
  /\ UNCHANGED <<lastUsedPort, launch, overlap, timers, nlaunch, nterm>>
  /\ UNCHANGED <<bridge, relay, wait>>

LaunchNext ==
  \/ \E forceNew \in BOOLEAN, custom \in BOOLEAN : launchBackend(forceNew, custom)
  \/ \E responders \in SUBSET Range(ProbeOrder(lastUsedPort)),
        processPort \in ProcessPorts :
       findExistingBackend(responders, processPort)
  \/ extractBinaryFails
  \/ spawnBackend
  \/ launchBackendFallback
  \/ stdoutIgnored
  \/ \E url \in Urls : parseConnectionInfoResolves(url)
  \/ \E reason \in {"timeout", "error", "exit"} :
       parseConnectionInfoRejects(reason)
  \/ terminate
  \/ forceKillTimer
  \/ \E c \in DOMAIN children : childExit(c)

LaunchSpec == Init /\ [][LaunchNext]_vars

\* The steps a launchBackend call takes when nothing else happens: each
\* probe gives up after 1 s and each execSync after 5 s, extractBinary
\* returns or throws, and the 300 s timeout of parseConnectionInfo fires.
launchProgress ==
  \/ \E responders \in SUBSET Range(ProbeOrder(lastUsedPort)),
        processPort \in ProcessPorts :
       findExistingBackend(responders, processPort)
  \/ extractBinaryFails
  \/ spawnBackend
  \/ launchBackendFallback
  \/ parseConnectionInfoRejects("timeout")

\* The launcher whose armed timers fire.
LaunchFairSpec == LaunchSpec /\ WF_vars(launchProgress)

\* The launcher before the extension is disposed (dispose is the one caller
\* of terminate() from outside), with calls that overlap.
OverlapNext ==
  \/ \E forceNew \in BOOLEAN, custom \in BOOLEAN : launchBackend(forceNew, custom)
  \/ \E responders \in SUBSET Range(ProbeOrder(lastUsedPort)),
        processPort \in ProcessPorts :
       findExistingBackend(responders, processPort)
  \/ extractBinaryFails
  \/ spawnBackend
  \/ launchBackendFallback
  \/ stdoutIgnored
  \/ \E url \in Urls : parseConnectionInfoResolves(url)
  \/ \E reason \in {"timeout", "error", "exit"} :
       parseConnectionInfoRejects(reason)
  \/ forceKillTimer
  \/ \E c \in DOMAIN children : childExit(c)
  \/ \E forceNew \in BOOLEAN, custom \in BOOLEAN :
       launchBackendOverlapping(forceNew, custom)
  \/ \E responders \in SUBSET Range(ProbeOrder(lastUsedPort)),
        processPort \in ProcessPorts :
       findExistingBackendOverlapping(responders, processPort)
  \/ extractBinaryFailsOverlapping
  \/ spawnBackendOverlapping
  \/ launchBackendFallbackOverlapping
  \/ stdoutIgnoredOverlapping
  \/ \E url \in Urls : parseConnectionInfoResolvesOverlapping(url)
  \/ \E reason \in {"timeout", "error", "exit"} :
       parseConnectionInfoRejectsOverlapping(reason)

OverlapSpec == Init /\ [][OverlapNext]_vars

\* ========================================================= WebviewController
\* ------------------------------------------------- the relay's operators
\* A property that is not there (undefined), where a string is looked for.
NoText == "undefined"

\* The values of properties.part and properties.delta: absent, a string, or
\* an object whose `text` is a string or is not there.
Absent == [kind |-> "absent", text |-> NoText]
Str(x) == [kind |-> "string", text |-> x]
Obj(x) == [kind |-> "object", text |-> x]

\* The parsed JSON of an event: `text` and `content` are strings or are not
\* there.
Event(type, text, content, part, delta) ==
  [type |-> type, text |-> text, content |-> content, part |-> part,
   delta |-> delta, rest |-> ""]

\* The parsed JSON of `{}`-like payloads: an object with no property.
EmptyEvent == Event("undefined", NoText, NoText, Absent, Absent)

\* The parsed JSON of `{"a":1}`.
EventA == [EmptyEvent EXCEPT !.rest = "a:1"]

\* What the backend writes, byte by byte. "D" stands for the six bytes of
\* `data: `; "L" and "T" are the leading and the trailing byte of a two-byte
\* UTF-8 character; a Json symbol stands for the bytes between the braces
\* of an event's JSON.
Sym(ch) == [ch |-> ch, ev |-> EmptyEvent]
Json(e) == [ch |-> "json", ev |-> e]
Marker == Sym("D")
\* Six other bytes at the place of the marker, such as `event:`.
Other == Sym("E")
NL == Sym("\n")
SP == Sym(" ")
Open == Sym("{")
Close == Sym("}")
Lead == Sym("L")
Trail == Sym("T")
\* The character a Lead and a Trail byte encode, and U+FFFD.
TwoByteChar == Sym("U")
Replacement == Sym("?")

\* chunk.toString(): the bytes of one chunk decoded as UTF-8; a two-byte
\* character cut by the chunk's end, and a trailing byte with no leading
\* byte before it, come out as U+FFFD.
RECURSIVE Decode(_)
Decode(bytes) ==
  IF bytes = <<>> THEN <<>>
  ELSE IF Head(bytes) = Lead
    THEN IF Len(bytes) >= 2 /\ bytes[2] = Trail
           THEN <<TwoByteChar>> \o Decode(Tail(Tail(bytes)))
           ELSE <<Replacement>> \o Decode(Tail(bytes))
  ELSE IF Head(bytes) = Trail
    THEN <<Replacement>> \o Decode(Tail(bytes))
  ELSE <<Head(bytes)>> \o Decode(Tail(bytes))

\* text.split('\n'): the pieces between the newlines, one more than there
\* are newlines.
RECURSIVE SplitLines(_)
SplitLines(text) ==
  IF \A i \in DOMAIN text : text[i] # NL THEN <<text>>
  ELSE LET i == CHOOSE j \in DOMAIN text :
                  text[j] = NL /\ \A k \in 1..(j - 1) : text[k] # NL
       IN <<SubSeq(text, 1, i - 1)>> \o SplitLines(SubSeq(text, i + 1, Len(text)))

\* `const lines = buffer.split('\n'); buffer = lines.pop() || ''`
Front(q) == SubSeq(q, 1, Len(q) - 1)
Last(q) == q[Len(q)]

\* line.trim()
RECURSIVE TrimLeft(_)
TrimLeft(line) ==
  IF line # <<>> /\ Head(line) = SP THEN TrimLeft(Tail(line)) ELSE line
RECURSIVE TrimRight(_)
TrimRight(line) ==
  IF line # <<>> /\ Last(line) = SP THEN TrimRight(Front(line)) ELSE line
Trim(line) == TrimLeft(TrimRight(line))

\* Mutant of IsData: the marker is not looked for.
IsDataAlways(line) == Len(Trim(line)) >= 2

\* line.trim().startsWith('data: '): the marker's own space is trimmed away
\* when nothing follows it.
IsData(line) == Len(Trim(line)) >= 2 /\ Head(Trim(line)) = Marker

\* line.trim().slice(6)
Data(line) == Tail(Trim(line))

\* `if (!data || data === '{}') continue`
Heartbeat(data) == data = <<>> \/ data = <<Open, Close>>

\* The data without its JSON whitespace.
Dense(data) == SelectSeq(data, LAMBDA b : b # SP)

\* Mutant of ValidJson: JSON.parse never throws.
ValidJsonAlways(data) == TRUE

\* JSON.parse(data) returns: the data is an object's text.
ValidJson(data) ==
  \/ Dense(data) = <<Open, Close>>
  \/ /\ Len(Dense(data)) = 3
     /\ Dense(data)[1] = Open
     /\ Dense(data)[2].ch = "json"
     /\ Dense(data)[3] = Close

\* JSON.parse(data)
Parse(data) ==
  IF Len(Dense(data)) = 3 THEN Dense(data)[2].ev ELSE EmptyEvent

\* `x || y` on strings that may be missing: "" and undefined are falsy.
Truthy(x) == x # NoText /\ x # ""
Or(x, y) == IF Truthy(x) THEN x ELSE y

\* `v?.text`: a string has no such property.
DotText(v) == IF v.kind = "object" THEN v.text ELSE NoText

\* delta?.text || part?.text || (typeof part === 'string' ? part : null)
textContent(e) ==
  Or(DotText(e.delta),
     Or(DotText(e.part), IF e.part.kind = "string" THEN e.part.text ELSE NoText))

Message(type, text) == [type |-> type, text |-> text]

\* handleServerEvent with this.communicationBridge set: the messages it
\* hands to sendMessage.
handleServerEvent(e) ==
  IF e.type \in {"chat.response", "message.complete"}
    THEN IF Truthy(Or(e.text, e.content))
           THEN <<Message("chat.receive", Or(e.text, e.content))>> ELSE <<>>
  ELSE IF e.type \in {"chat.streaming", "message.chunk"}
    THEN IF Truthy(Or(e.text, e.content))
           THEN <<Message("chat.streaming", Or(e.text, e.content))>> ELSE <<>>
  ELSE IF e.type = "message.part.updated"
    THEN IF Truthy(textContent(e))
           THEN <<Message("chat.streaming", textContent(e))>> ELSE <<>>
  ELSE <<>>

\* Mutant of Accepted: the heartbeat is not skipped.
AcceptedWithHeartbeat(line) ==
  IsData(line) /\ ValidJson(Data(line))

\* The lines of the loop whose data reaches handleServerEvent.
Accepted(line) ==
  IsData(line) /\ ~Heartbeat(Data(line)) /\ ValidJson(Data(line))

\* `for (const line of lines)`: the events handed to handleServerEvent.
RECURSIVE EventsOf(_)
EventsOf(lines) ==
  IF lines = <<>> THEN <<>>
  ELSE (IF Accepted(Head(lines)) THEN <<Parse(Data(Head(lines)))>> ELSE <<>>)
       \o EventsOf(Tail(lines))

\* The messages handleServerEvent sends for these events.
RECURSIVE MessagesOf(_)
MessagesOf(evs) ==
  IF evs = <<>> THEN <<>>
  ELSE handleServerEvent(Head(evs)) \o MessagesOf(Tail(evs))

\* --------------------------------------------------- the relay's actions
\* A ClientRequest http.get returned: no response yet.
NewRequest ==
  [state |-> "pending", wire |-> <<>>, buffer |-> <<>>, delivered |-> <<>>,
   lines |-> <<>>]

\* Mutant of Retained: the guard of startEventStreamListener is gone.
RetainedNever == FALSE

\* `if (this.eventStreamRequest) return`
Retained == eventStreamRequest # Undefined

\* startEventStreamListener(): the requests and the retained request after
\* it.
ListenerRequests ==
  IF Retained \/ ~connection THEN requests ELSE Append(requests, NewRequest)
ListenerRequest ==
  IF Retained \/ ~connection THEN eventStreamRequest ELSE Len(requests) + 1

\* The catch block of handleChatSend: the messages after it.
ChatError ==
  IF communicationBridge THEN Append(posted, Message("error", "chat.error"))
  ELSE posted

\* load() begins: the connection is kept, the CommunicationBridge is made
\* and given the chat callback, bridgeServer.createSession is awaited.
loadStart ==
  /\ loading = "none"
  /\ ~disposed
  /\ loading' = "createSession"
  /\ connection' = TRUE
  /\ communicationBridge' = TRUE
  /\ UNCHANGED <<disposed, bridgeSessionId, chatSessionId, chats,
                 eventStreamRequest, requests, handled, posted, removeCalls,
                 nframes>>
  /\ UNCHANGED <<bridge, backend>>

\* bridgeServer.createSession resolves in load(): the session id is kept;
\* or it rejects and load() throws.
loadSession(created) ==
  /\ loading = "createSession"
  /\ IF created
       THEN loading' = "returned" /\ bridgeSessionId' = 1
       ELSE loading' = "failed" /\ UNCHANGED bridgeSessionId
  /\ UNCHANGED <<connection, communicationBridge, disposed, chatSessionId,
                 chats, eventStreamRequest, requests, handled, posted,
                 removeCalls, nframes>>
  /\ UNCHANGED <<bridge, backend>>

\* The webview posts a chat message: handleChatSend runs to its first await.
handleChatSend ==
  /\ communicationBridge
  /\ Len(chats) < MaxChats
  /\ IF ~connection
       THEN chats' = Append(chats, "failed") /\ posted' = ChatError
       ELSE /\ chats' = Append(chats, IF chatSessionId THEN "prompt"
                                                      ELSE "session")
            /\ UNCHANGED posted
  /\ UNCHANGED <<connection, communicationBridge, loading, disposed,
                 bridgeSessionId, chatSessionId, eventStreamRequest, requests,
                 handled, removeCalls, nframes>>
  /\ UNCHANGED <<bridge, backend>>

\* getOrCreateSession returns an id to call i, or throws.
getOrCreateSession(i, ok) ==
  /\ i \in DOMAIN chats
  /\ chats[i] = "session"
  /\ IF ok
       THEN /\ chatSessionId' = TRUE
            /\ chats' = [chats EXCEPT ![i] = "prompt"]
            /\ UNCHANGED posted
       ELSE /\ chats' = [chats EXCEPT ![i] = "failed"]
            /\ posted' = ChatError
            /\ UNCHANGED chatSessionId
  /\ UNCHANGED <<connection, communicationBridge, loading, disposed,
                 bridgeSessionId, eventStreamRequest, requests, handled,
                 removeCalls, nframes>>
  /\ UNCHANGED <<bridge, backend>>

\* The POST to prompt_async of call i is answered: with response.ok the
\* call goes on to startEventStreamListener, otherwise to its catch block.
promptAnswered(i, ok) ==
  /\ i \in DOMAIN chats
  /\ chats[i] = "prompt"
  /\ IF ok
       THEN /\ chats' = [chats EXCEPT ![i] = "done"]
            /\ requests' = ListenerRequests
            /\ eventStreamRequest' = ListenerRequest
            /\ UNCHANGED posted
       ELSE /\ chats' = [chats EXCEPT ![i] = "failed"]
            /\ posted' = ChatError
            /\ UNCHANGED <<requests, eventStreamRequest>>
  /\ UNCHANGED <<connection, communicationBridge, loading, disposed,
                 bridgeSessionId, chatSessionId, handled, removeCalls, nframes>>
  /\ UNCHANGED <<bridge, backend>>

\* The response callback of request r: with a status other than 200 it
\* returns at once and no listener is installed.
response(r, status) ==
  /\ r \in DOMAIN requests
  /\ requests[r].state = "pending"
  /\ requests' = [requests EXCEPT
                    ![r].state = IF status = 200 THEN "open" ELSE "rejected"]
  /\ UNCHANGED <<connection, communicationBridge, loading, disposed,
                 bridgeSessionId, chatSessionId, chats, eventStreamRequest,
                 handled, posted, removeCalls, nframes>>
  /\ UNCHANGED <<bridge, backend>>

\* The backend writes a frame to the open stream of request r.
backendWrites(r, frame) ==
  /\ r \in DOMAIN requests
  /\ requests[r].state = "open"
  /\ nframes < MaxFrames
  /\ nframes' = nframes + 1
  /\ requests' = [requests EXCEPT ![r].wire = @ \o frame]
  /\ UNCHANGED <<connection, communicationBridge, loading, disposed,
                 bridgeSessionId, chatSessionId, chats, eventStreamRequest,
                 handled, posted, removeCalls>>
  /\ UNCHANGED <<bridge, backend>>

\* res.on('data') of request r with the next n bytes as the chunk.
onData(r, n) ==
  /\ r \in DOMAIN requests
  /\ requests[r].state = "open"
  /\ n \in 1..Len(requests[r].wire)
  /\ LET chunk  == SubSeq(requests[r].wire, 1, n)
         pieces == SplitLines(requests[r].buffer \o Decode(chunk))
         evs    == EventsOf(Front(pieces))
     IN /\ requests' = [requests EXCEPT
                          ![r].wire = SubSeq(@, n + 1, Len(@)),
                          ![r].buffer = Last(pieces),
                          ![r].delivered = @ \o chunk,
                          ![r].lines = @ \o Front(pieces)]
        /\ handled' = handled \o evs
        /\ posted' = IF communicationBridge THEN posted \o MessagesOf(evs)
                     ELSE posted
  /\ UNCHANGED <<connection, communicationBridge, loading, disposed,
                 bridgeSessionId, chatSessionId, chats, eventStreamRequest,
                 removeCalls, nframes>>
  /\ UNCHANGED <<bridge, backend>>

\* res.on('end') of request r: the backend ended the stream and every
\* chunk was read.
onEnd(r) ==
  /\ r \in DOMAIN requests
  /\ requests[r].state = "open"
  /\ requests[r].wire = <<>>
  /\ requests' = [requests EXCEPT ![r].state = "ended"]
  /\ eventStreamRequest' = Undefined
  /\ UNCHANGED <<connection, communicationBridge, loading, disposed,
                 bridgeSessionId, chatSessionId, chats, handled, posted,
                 removeCalls, nframes>>
  /\ UNCHANGED <<bridge, backend>>

\* The 'error' listener of request r: the connection failed or broke.
onError(r) ==
  /\ r \in DOMAIN requests
  /\ requests[r].state \in {"pending", "open", "rejected"}
  /\ requests' = [requests EXCEPT ![r].state = "errored", ![r].wire = <<>>]
  /\ eventStreamRequest' = Undefined
  /\ UNCHANGED <<connection, communicationBridge, loading, disposed,
                 bridgeSessionId, chatSessionId, chats, handled, posted,
                 removeCalls, nframes>>
  /\ UNCHANGED <<bridge, backend>>

\* dispose()
dispose ==
  /\ loading # "none"
  /\ ~disposed
  /\ disposed' = TRUE
  /\ communicationBridge' = FALSE
  /\ connection' = FALSE
  /\ bridgeSessionId' = Null
  /\ removeCalls' = IF bridgeSessionId # Null
                      THEN Append(removeCalls, bridgeSessionId)
                      ELSE removeCalls
  /\ UNCHANGED <<loading, chatSessionId, chats, eventStreamRequest, requests,
                 handled, posted, nframes>>
  /\ UNCHANGED <<bridge, backend>>

\* ------------------------------------------------ what the backend writes
\* A message.part.updated event.
PartUpdated(part, delta) ==
  Event("message.part.updated", NoText, NoText, part, delta)

Parts == {Absent, Str("P"), Obj("X"), Obj(NoText)}
Deltas == {Absent, Str("D"), Obj("D"), Obj(""), Obj(NoText)}

\* The events of whole frames.
RelayEvents ==
  {PartUpdated(part, delta) : part \in Parts, delta \in Deltas}
  \cup {Event("chat.response", "T", NoText, Absent, Absent),
        Event("message.chunk", NoText, "C", Absent, Absent),
        Event("message.updated", NoText, NoText, Absent, Absent)}

\* `data: <json>` and the blank line that ends an SSE event.
EventFrame(e) == <<Marker, Open, Json(e), Close, NL, NL>>

\* The frames of the byte-wise streams: an event that posts a message, the
\* event {"a":1}, the heartbeat, a JSON text that is cut short, a line with
\* another field name than `data`, a line with a two-byte character, a data line with blanks
\* around it.
StreamFrames ==
  {EventFrame(Event("chat.streaming", "hi", NoText, Absent, Absent)),
   EventFrame(EventA),
   <<Marker, Open, Close, NL, NL>>,
   <<Marker, Open, Json(EventA), NL, NL>>,
   <<Other, Open, Json(EventA), Close, NL>>,
   <<Lead, Trail, NL>>,
   <<SP, Marker, Open, Json(EventA), Close, SP, NL>>}

\* The relay between one UI surface and the backend, with the backend's
\* frames read whole.
RelayNext ==
  \/ loadStart
  \/ \E created \in BOOLEAN : loadSession(created)
  \/ handleChatSend
  \/ \E i \in DOMAIN chats, ok \in BOOLEAN : getOrCreateSession(i, ok)
  \/ \E i \in DOMAIN chats, ok \in BOOLEAN : promptAnswered(i, ok)
  \/ \E r \in DOMAIN requests, status \in {200, 503} : response(r, status)
  \/ \E r \in DOMAIN requests, e \in RelayEvents :
       backendWrites(r, EventFrame(e))
  \/ \E r \in DOMAIN requests : onData(r, Len(requests[r].wire))
  \/ \E r \in DOMAIN requests : onEnd(r)
  \/ \E r \in DOMAIN requests : onError(r)
  \/ dispose

RelaySpec == Init /\ [][RelayNext]_vars

\* The same relay with the backend's bytes read in chunks of any length.
StreamNext ==
  \/ loadStart
  \/ \E created \in BOOLEAN : loadSession(created)
  \/ handleChatSend
  \/ \E i \in DOMAIN chats, ok \in BOOLEAN : getOrCreateSession(i, ok)
  \/ \E i \in DOMAIN chats, ok \in BOOLEAN : promptAnswered(i, ok)
  \/ \E r \in DOMAIN requests, status \in {200, 503} : response(r, status)
  \/ \E r \in DOMAIN requests, frame \in StreamFrames : backendWrites(r, frame)
  \/ \E r \in DOMAIN requests :
       \E n \in 1..Len(requests[r].wire) : onData(r, n)
  \/ \E r \in DOMAIN requests : onEnd(r)
  \/ \E r \in DOMAIN requests : onError(r)
  \/ dispose

StreamSpec == Init /\ [][StreamNext]_vars

\* ======================================================= parseConnectionInfo
\* One wait for the announcement of a child, with the child's stdout read in
\* chunks of any length.  The bytes of stdout: Banner is the text
\* `opencode server listening on `, Scheme is `http://`, HostA and HostB are
\* the two halves of the host, Colon is `:`, PortA and PortB are the two
\* halves of the port digits `4096`, Bracket is `[` (no host), Noise is a
\* byte of another log line.
Banner == Sym("B")
Scheme == Sym("S")
HostA == Sym("127.0.0")
HostB == Sym(".1")
Colon == Sym(":")
PortA == Sym("40")
PortB == Sym("96")
Bracket == Sym("[")
Noise == Sym("x")

Announcement == <<Banner, Scheme, HostA, HostB, Colon, PortA, PortB, NL>>

\* What a child writes to stdout: the announcement, the announcement
\* between two log lines, a line whose URL does not parse and the
\* announcement, a log line only.
Outputs ==
  {Announcement,
   <<Noise, NL>> \o Announcement \o <<Noise, NL>>,
   <<Banner, Scheme, Bracket, NL>> \o Announcement,
   <<Noise, NL>>}

\* trimmed.match(/opencode server listening on (https?:\/\/\S+)/i): where
\* the first match begins in the line, or 0.
MatchAt(line) ==
  LET at == {i \in 1..(Len(line) - 2) :
               line[i] = Banner /\ line[i + 1] = Scheme}
  IN IF at = {} THEN 0 ELSE CHOOSE i \in at : \A j \in at : i <= j

\* new URL(match[1]) and what is made of it: `ok` is FALSE when the
\* constructor throws; the port is the number its digits spell, Undefined
\* when there are none; uiBase is the href without its last slash and
\* `/app`, known by the host and the port field.
UrlOf(line) ==
  LET url    == SubSeq(line, MatchAt(line) + 2, Len(line))
      colons == {i \in DOMAIN url : url[i] = Colon}
      host   == IF colons = {} THEN url
                ELSE SubSeq(url, 1, (CHOOSE i \in colons : TRUE) - 1)
      digits == IF colons = {} THEN <<>>
                ELSE SubSeq(url, (CHOOSE i \in colons : TRUE) + 1, Len(url))
      number == IF digits = <<PortA, PortB>> THEN 4096
                ELSE IF digits = <<PortA>> THEN 40
                ELSE Undefined
      u      == [protocol |-> "http:", port |-> number]
  IN [ok     |-> url[1] # Bracket,
      port   |-> inferredPort(u),
      uiBase |-> [host |-> host, port |-> UrlPortField(u)]]

\* `for (const line of lines)`: the connection of the first line that
\* matches and whose URL parses; `ok` is FALSE when there is none.
RECURSIVE ScanLines(_)
ScanLines(lines) ==
  IF lines = <<>> THEN [ok |-> FALSE, port |-> Undefined, uiBase |-> <<>>]
  ELSE IF MatchAt(Head(lines)) # 0 /\ UrlOf(Head(lines)).ok
         THEN UrlOf(Head(lines))
  ELSE ScanLines(Tail(lines))

\* Mutant of Unresolved: the flag is not looked at.
UnresolvedAlways == TRUE

\* `if (!resolved)`
Unresolved == ~wait.resolved

\* resolve(...) or reject(...) behind `if (!resolved)`: the wait after it.
\* `calls` are the resolve and reject calls made, `read` is how much of
\* stdout had been read.
Settle(w, outcome) ==
  IF Unresolved
    THEN [w EXCEPT !.resolved = TRUE,
                   !.calls = Append(@, outcome),
                   !.timeout = IF outcome.reason = "timeout" THEN @
                               ELSE "cleared"]
    ELSE w

Outcome(kind, reason, p, uiBase, stderr) ==
  [kind |-> kind, reason |-> reason, port |-> p, uiBase |-> uiBase,
   stderr |-> stderr, read |-> Len(wait.stdoutData)]

\* parseConnectionInfo(process) is called for a child that will write `out`:
\* the timeout is armed and the listeners are installed.
parseConnectionInfo(out) ==
  /\ wait.pc = "none"
  /\ wait' = [NoWait EXCEPT !.pc = "waiting", !.unwritten = out,
                            !.timeout = "armed"]
  /\ UNCHANGED <<bridge, relay>>
  /\ UNCHANGED <<currentProcess, currentConnection, lastUsedPort, children,
                 launch, overlap, timers, nlaunch, nterm>>

\* The "data" listener of stdout with the next n bytes as the chunk: all of
\* stdoutData is split and scanned again.
stdoutOnData(n) ==
  /\ wait.pc = "waiting"
  /\ n \in 1..Len(wait.unwritten)
  /\ LET data == wait.stdoutData \o SubSeq(wait.unwritten, 1, n)
         seen == [wait EXCEPT !.stdoutData = data,
                              !.unwritten = SubSeq(@, n + 1, Len(@))]
         conn == ScanLines(SplitLines(data))
     IN wait' = IF conn.ok
                  THEN Settle(seen, [Outcome("resolve", "announced", conn.port,
                                             conn.uiBase, 0)
                                       EXCEPT !.read = Len(data)])
                  ELSE seen
  /\ UNCHANGED <<bridge, relay>>
  /\ UNCHANGED <<currentProcess, currentConnection, lastUsedPort, children,
                 launch, overlap, timers, nlaunch, nterm>>

\* The "data" listener of stderr: the chunk is added to stderrData.
stderrOnData ==
  /\ wait.pc = "waiting"
  /\ wait.stderrData < MaxStderr
  /\ wait' = [wait EXCEPT !.stderrData = @ + 1]
  /\ UNCHANGED <<bridge, relay>>
  /\ UNCHANGED <<currentProcess, currentConnection, lastUsedPort, children,
                 launch, overlap, timers, nlaunch, nterm>>

\* The child's "error" event.
processOnError ==
  /\ wait.pc = "waiting"
  /\ ~wait.errored
  /\ ~wait.exited
  /\ wait' = Settle([wait EXCEPT !.errored = TRUE],
                    Outcome("reject", "error", Undefined, <<>>, 0))
  /\ UNCHANGED <<bridge, relay>>
  /\ UNCHANGED <<currentProcess, currentConnection, lastUsedPort, children,
                 launch, overlap, timers, nlaunch, nterm>>

\* The child's "exit" event; what it had written may still be read.
processOnExit ==
  /\ wait.pc = "waiting"
  /\ ~wait.exited
  /\ wait' = Settle([wait EXCEPT !.exited = TRUE],
                    Outcome("reject", "exit", Undefined, <<>>,
                            wait.stderrData))
  /\ UNCHANGED <<bridge, relay>>
  /\ UNCHANGED <<currentProcess, currentConnection, lastUsedPort, children,
                 launch, overlap, timers, nlaunch, nterm>>

\* The 300 s timeout fires, unless clearTimeout was called.
timeoutFires ==
  /\ wait.pc = "waiting"
  /\ wait.timeout = "armed"
  /\ wait' = Settle([wait EXCEPT !.timeout = "fired"],
                    Outcome("reject", "timeout", Undefined, <<>>,
                            wait.stderrData))
  /\ UNCHANGED <<bridge, relay>>
  /\ UNCHANGED <<currentProcess, currentConnection, lastUsedPort, children,
                 launch, overlap, timers, nlaunch, nterm>>

WaitNext ==
  \/ \E out \in Outputs : parseConnectionInfo(out)
  \/ \E n \in 1..Len(wait.unwritten) : stdoutOnData(n)
  \/ stderrOnData
  \/ processOnError
  \/ processOnExit
  \/ timeoutFires

WaitSpec == Init /\ [][WaitNext]_vars

\* ================================================================ properties
\* A frame was handed to the write of stream c.
HasFrame(c, f) == \E i \in DOMAIN streams[c].writes : streams[c].writes[i] = f

\* The frame written last to stream c.
LastFrame(c) == streams[c].writes[Len(streams[c].writes)]

\* The step answered a request that names a registered session with a token
\* that is absent or is not the session's token.
WrongToken ==
  /\ last.op = "request"
  /\ last.known = "live"
  /\ last.path # "short"
  /\ last.tok # sess[last.sid].token

\* The step ended a handleSend: the body was read, or reading it failed.
SendAnswered == last.op = "request" /\ last.body # "none"

\* The subscribers of the sessions other than sid.
OtherSubscribers(sid) ==
  UNION {sess[i].sseClients : i \in DOMAIN sess \ {sid}}

C2_OpenFileReply ==
  (/\ SendAnswered
   /\ last.msg = [type |-> "openFile", id |-> "r1", arg |-> "text"]
   /\ last.outcome = "resolved")
  => LET f == Envelope("r1", "true", "", "", last.ts)
     IN /\ last.envelopes = 1
        /\ \A c \in last.subs : LastFrame(c) = f
        /\ \A c \in DOMAIN streams : HasFrame(c, f) => c \in last.subs
        /\ \A c \in OtherSubscribers(last.sid) : ~HasFrame(c, f)
        /\ last.wrote = Cardinality(last.subs)

\* The reply went to a subscriber while another session had one too.
C2_Witness ==
  /\ SendAnswered
  /\ last.msg = [type |-> "openFile", id |-> "r1", arg |-> "text"]
  /\ last.outcome = "resolved"
  /\ last.subs # {}
  /\ OtherSubscribers(last.sid) # {}

C4_HandlerFailureReplied ==
  (/\ SendAnswered
   /\ last.outcome = "rejected"
   /\ last.msg.id # NoId
   /\ last.subs # {})
  => \A c \in last.subs :
       /\ LastFrame(c).kind = "message"
       /\ LastFrame(c).replyTo = last.msg.id
       /\ LastFrame(c).ok = "false"
       /\ LastFrame(c).ts = now

\* ------------------------------------------------------------------- C5
\* C5: when the body of an authenticated POST send parses and the handler
\* it is dispatched to throws, the answer is 400 and no frame is written to
\* any stream for the request.
C5_HandlerThrowSilent ==
  (SendAnswered /\ last.outcome = "rejected")
  => /\ last.status = 400
     /\ last.envelopes = 0
     /\ last.wrote = 0

\* A handler threw for a message with an id while the session had a
\* subscriber.
C5_Witness ==
  /\ SendAnswered
  /\ last.outcome = "rejected"
  /\ last.msg.id # NoId
  /\ last.subs # {}

\* ------------------------------------------------------------------- C6
\* C6: an authenticated POST send whose body is not valid JSON is answered
\* 400, invokes no handler and writes no frame; the registry and the
\* subscriber sets are as before.
C6_MalformedBody ==
  (SendAnswered /\ last.body = "invalid")
  => /\ last.status = 400
     /\ last.called = "none"
     /\ last.envelopes = 0
     /\ last.wrote = 0
     /\ last.added = {}
     /\ last.kept

\* A malformed body sent to a session that has a subscriber.
C6_Witness ==
  /\ SendAnswered
  /\ last.body = "invalid"
  /\ last.subs # {}

\* ------------------------------------------------------------------- C7
\* C7: an authenticated POST send whose body parses to a message and whose
\* dispatch completes without a throw is answered 204, whatever the type:
\* a handler that resolved, a missing payload field, an optional capability
\* the session lacks, an unknown type.
C7_DispatchAnswered204 ==
  (SendAnswered /\ last.body = "object" /\ last.outcome # "rejected")
  => last.status = 204

\* An optional capability the session lacks.
C7_Witness ==
  /\ SendAnswered
  /\ last.body = "object"
  /\ last.msg.type \in OptionalHandlers
  /\ last.msg.type \notin sess[last.sid].handlers
  /\ last.status = 204

\* ------------------------------------------------------------------- C8
\* C8 (as claimed): every authenticated POST send whose body parses and
\* whose dispatch completes broadcasts exactly one envelope to all current
\* subscribers of the session, with or without an id.
C8_AlwaysOneEnvelope ==
  (SendAnswered /\ last.body = "object" /\ last.outcome # "rejected")
  => /\ last.envelopes = 1
     /\ last.wrote = Cardinality(last.subs)

\* C8 (amended): every authenticated POST send whose body parses and whose
\* dispatch completes (it is answered 204) broadcasts exactly one envelope
\* with replyTo = id to all current subscribers of the session when the
\* message carries an id, and broadcasts nothing when it carries none.
C8_OneEnvelopePerId ==
  (SendAnswered /\ last.body = "object" /\ last.status = 204)
  => IF last.msg.id # NoId
       THEN /\ last.envelopes = 1
            /\ last.wrote = Cardinality(last.subs)
            /\ \A c \in last.subs :
                 /\ LastFrame(c).kind = "message"
                 /\ LastFrame(c).replyTo = last.msg.id
                 /\ LastFrame(c).ts = last.ts
                 /\ LastFrame(c).ok =
                      (IF last.outcome = "resolved" THEN "true" ELSE "false")
       ELSE /\ last.envelopes = 0
            /\ last.wrote = 0

\* A message with an id that ends in a handler-level failure (replyError)
\* while the session has a subscriber.
C8_Witness ==
  /\ SendAnswered
  /\ last.status = 204
  /\ last.msg.id # NoId
  /\ last.called = "none"
  /\ last.subs # {}

\* ------------------------------------------------------------------- C9
\* C9: an authenticated GET events request adds its response to the
\* session's subscriber set; the first frame written to the response is the
\* connected event, which is written once, so that no message or keepalive
\* frame precedes it; once the transport has closed, the response is in no
\* subscriber set.
C9_Subscription ==
  /\ \A c \in DOMAIN streams :
       LET w == streams[c].writes
       IN /\ Len(w) >= 1
          /\ w[1] = Connected
          /\ \A i \in 2..Len(w) : w[i].kind # "connected"
          /\ streams[c].state = "closed" =>
               \A i \in DOMAIN sess : c \notin sess[i].sseClients
  /\ (/\ last.op = "request"
      /\ last.method = "GET" /\ last.path = "events"
      /\ last.known = "live"
      /\ last.tok = sess[last.sid].token)
     => /\ last.status = 200
        /\ last.added = {Len(streams)}
        /\ Len(streams) \in sess[last.sid].sseClients
        /\ streams[Len(streams)].sid = last.sid
        /\ last.wrote = 1

\* A subscriber that was sent a later frame and whose transport then closed.
C9_Witness ==
  \E c \in DOMAIN streams :
    /\ streams[c].state = "closed"
    /\ Len(streams[c].writes) >= 2

\* ------------------------------------------------------------------ C10
\* C10: every message frame written to a subscriber belongs to a broadcast
\* issued after the subscriber's events request: no earlier broadcast of the
\* session is ever written to it, also when it connects after an earlier
\* connection of the same session has closed.
C10_NoBackfill ==
  \A c \in DOMAIN streams :
    \A i \in DOMAIN streams[c].writes :
      streams[c].writes[i].kind = "message" =>
        streams[c].writes[i].ts > streams[c].regAt

\* A subscriber that connected after a broadcast was sent to an earlier
\* connection of its session, which has closed.
C10_Witness ==
  \E c, d \in DOMAIN streams :
    /\ c < d
    /\ streams[c].sid = streams[d].sid
    /\ streams[c].state = "closed"
    /\ \E i \in DOMAIN streams[c].writes :
         /\ streams[c].writes[i].kind = "message"
         /\ streams[c].writes[i].ts <= streams[d].regAt

\* ------------------------------------------------------------------ C11
\* C11: a server push (send) to an id that is not registered or to a session
\* with no subscriber, and the reply broadcast of a POST send to a session
\* with no subscriber, write no frame to any stream, end no stream, return
\* normally (the send is answered 204) and leave the registry and every
\* subscriber set as they were; the frame is kept nowhere.
C11_DroppedWithoutSubscribers ==
  /\ (last.op = "push" /\ last.subs = {})
     => /\ last.outcome = "returned"
        /\ last.wrote = 0
        /\ last.ended = 0
        /\ last.kept
        /\ last.known = "live" =>
             \A c \in DOMAIN streams :
               \A i \in DOMAIN streams[c].writes :
                 streams[c].writes[i].ts # last.ts
  /\ (/\ SendAnswered
      /\ last.body = "object"
      /\ last.outcome # "rejected"
      /\ last.msg.id # NoId
      /\ last.subs = {})
     => /\ last.status = 204
        /\ last.envelopes = 1
        /\ last.wrote = 0
        /\ last.ended = 0
        /\ last.kept
        /\ \A c \in DOMAIN streams :
             \A i \in DOMAIN streams[c].writes :
               streams[c].writes[i].ts # last.ts

\* A push to a registered session without subscribers while another session
\* has one.
C11_Witness ==
  /\ last.op = "push"
  /\ last.known = "live"
  /\ last.sid \in sessions
  /\ last.subs = {}
  /\ OtherSubscribers(last.sid) # {}

\* ------------------------------------------------------------------ C12
\* C12: a keepalive tick writes the ping to every subscriber of every
\* registered session; the subscribers whose write failed are in no
\* subscriber set afterwards and are the only streams ended; every other
\* subscriber is still in the set of its session; no session is added or
\* removed.
C12_KeepaliveFailure ==
  last.op = "tick"
  => /\ last.outcome = "returned"
     /\ last.wrote = Cardinality(last.subs)
     /\ \A c \in last.subs : LastFrame(c) = Ping
     /\ \A c \in last.failed :
          /\ c \notin AllSubscribers(sess)
          /\ streams[c].state = "dead"
     /\ \A c \in last.subs \ last.failed :
          /\ c \in sess[streams[c].sid].sseClients
          /\ streams[c].state = "open"
     /\ last.ended = Cardinality(last.failed)
     /\ last.added = {}
     /\ last.registered = {}
     /\ last.unregistered = {}

\* A tick in which one subscriber's write failed and another's did not.
C12_Witness ==
  /\ last.op = "tick"
  /\ last.failed # {}
  /\ last.subs \ last.failed # {}

\* ------------------------------------------------------------------ C13
\* C13: every createSession call that returns has registered exactly one
\* entry, under an id that was neither registered nor ever removed before,
\* and the entry's token is the returned token; every entry ever registered
\* has its own id and token, so that no two live sessions share an id.
C13_OneFreshEntryPerCreate ==
  /\ last.op = "create"
     => /\ last.known = "never"
        /\ last.registered = {last.sid}
        /\ last.unregistered = {}
        /\ last.sid \in sessions
        /\ sess[last.sid].token = last.tok
        /\ sess[last.sid].sseClients = {}
        /\ last.othersKept
  /\ sessions \cap removed = {}
  /\ sessions \cup removed = DOMAIN sess
  /\ uuid = 2 * Cardinality(DOMAIN sess)
  /\ \A i, j \in DOMAIN sess : i # j => sess[i].token # sess[j].token

\* A createSession call that returns after an earlier session was removed.
C13_Witness ==
  /\ last.op = "create"
  /\ removed # {}
  /\ Cardinality(DOMAIN sess) = MaxSessions

\* ------------------------------------------------------------------ C14
\* C14: removeSession of a registered id calls end() once on every stream of
\* the session's subscriber set and on no other stream, and deletes the
\* entry; removeSession of an id that was removed before or never
\* registered returns without ending any stream and without changing the
\* registry or a subscriber set.  Either way every other session and its
\* subscribers are as before.
C14_RemoveSession ==
  last.op = "remove"
  => /\ last.outcome = "returned"
     /\ last.wrote = 0
     /\ last.othersKept
     /\ IF last.known = "live"
          THEN /\ last.unregistered = {last.sid}
               /\ last.sid \notin sessions
               /\ last.ended = Cardinality(last.subs)
               /\ \A c \in last.subs :
                    streams[c].state = "ended" /\ streams[c].ends = 1
          ELSE /\ last.unregistered = {}
               /\ last.ended = 0
               /\ last.kept

\* A second removeSession of a session whose streams were ended by the
\* first, while another session has a subscriber.
C14_Witness ==
  /\ last.op = "remove"
  /\ last.known = "removed"
  /\ sess[last.sid].sseClients # {}
  /\ \E i \in sessions : sess[i].sseClients # {}

\* ------------------------------------------------------------------ C15
\* C15: http.createServer (with listen) and setInterval are each called at
\* most once, whatever the createSession calls and however they overlap the
\* binding; the server exists exactly when the one call was made and the
\* timer is armed exactly when the one setInterval call was made.
C15_OneListenerOneTimer ==
  /\ calls.createServer <= 1
  /\ calls.setInterval <= 1
  /\ (server # "null") <=> (calls.createServer = 1)
  /\ keepaliveInterval <=> (calls.setInterval = 1)
  /\ keepaliveInterval => server = "listening"

\* Two createSession calls, the second made while the first was waiting for
\* the listen callback.
C15_Witness ==
  /\ server = "listening"
  /\ Cardinality(DOMAIN sess) = 2
  /\ \E i \in DOMAIN sess : sess[i].baseUrlPort = 0
  /\ calls = [createServer |-> 1, setInterval |-> 1]

\* ------------------------------------------------------------------ C16
\* C16: when a launchBackend call without forceNew has settled after a probe
\* that at least one candidate port answered, its result is a reused
\* connection without a process handle, the call spawned no child, and the
\* port is the first port of the probe order among those that answered.
C16_ReusedFirstResponder ==
  (launch.pc = "done" /\ ~launch.forceNew /\ launch.responders # {})
  => /\ launch.result.kind = "connection"
     /\ launch.result.reused
     /\ launch.result.process = Undefined
     /\ launch.spawned = <<>>
     /\ launch.result.port \in launch.responders
     /\ \E k \in DOMAIN launch.order :
          /\ launch.order[k] = launch.result.port
          /\ \A j \in 1..(k - 1) : launch.order[j] \notin launch.responders

\* Two ports answered, the first port of the probe order (the remembered
\* port) did not.
C16_Witness ==
  /\ launch.pc = "done"
  /\ ~launch.forceNew
  /\ Cardinality(launch.responders) = 2
  /\ Len(launch.order) = Len(PriorityPorts) + 1
  /\ launch.order[1] \notin launch.responders
  /\ launch.result.reused

\* The port an announced URL names: the one written in it, or the default
\* port of its scheme.
AnnouncedPort(u) ==
  IF u.port # Undefined THEN u.port
  ELSE IF u.protocol = "https:" THEN 443 ELSE 80

C18_ForceNewLeavesShared ==
  [][(launch' # launch /\ launch'.forceNew)
     => /\ currentProcess' = currentProcess
        /\ currentConnection' = currentConnection
        /\ lastUsedPort' = lastUsedPort
        /\ currentProcess # Undefined =>
             children'[currentProcess].signals =
               children[currentProcess].signals]_vars

\* ------------------------------------------------------------------ C19
\* C19 (as claimed): whenever a launchBackend call without forceNew spawns a
\* child, in its first attempt or in the retry, the process the shared
\* handle referred to has been sent SIGTERM by then; and when the call
\* settles with the connection of the child it spawned and the handle still
\* refers to that child, the connection is cached and its port remembered.
C19_PriorTerminatedFirst ==
  [][/\ (~launch.forceNew /\ Len(launch'.spawned) > Len(launch.spawned)
         /\ currentProcess # Undefined)
        => \E i \in DOMAIN children'[currentProcess].signals :
             children'[currentProcess].signals[i] = "SIGTERM"
     /\ (/\ ~launch.forceNew
         /\ launch.pc # "done" /\ launch'.pc = "done"
         /\ launch'.result.kind = "connection"
         /\ launch.spawned # <<>>
         /\ currentProcess = Awaited)
        => /\ currentProcess' = launch'.result.process
           /\ currentConnection' = launch'.result.port
           /\ lastUsedPort' = launch'.result.port]_vars

\* ------------------------------------------------------------------ C20
\* C20: a launchBackend call spawns at most two children; when it spawned
\* two, a custom command is configured, the first attempt failed in the
\* wait for the announcement (timeout, error or exit), and the second child
\* was given the fixed serve arguments only; a call fails at most twice, and
\* after the second failure it has settled with the error.
C20_AtMostTwoSpawns ==
  /\ Len(launch.spawned) <= 2
  /\ Len(launch.failures) <= 2
  /\ Len(launch.spawned) = 2
     => /\ launch.custom
        /\ launch.failures # <<>>
        /\ launch.failures[1] \in {"timeout", "error", "exit"}
        /\ children[launch.spawned[2]].args = <<"serve", "--cors", "*">>
        /\ children[launch.spawned[1]].args = <<"serve", "--cors", "*", "extra">>
  /\ Len(launch.failures) = 2
     => launch.pc = "done" /\ launch.result.kind = "error"
  /\ (launch.pc = "done" /\ launch.result.kind = "error")
     => /\ launch.failures # <<>>
        /\ Len(launch.failures) = 1 => ~launch.custom

\* Both attempts spawned a child and both waits failed.
C20_Witness ==
  /\ launch.pc = "done"
  /\ launch.result.kind = "error"
  /\ Len(launch.spawned) = 2
  /\ launch.failures[1] = "timeout"

\* A step in which terminate() ran with a shared child: it armed a timer.
TerminateArmed == Len(timers') > Len(timers)

\* A step in which the oldest pending force-kill timer fired.
GraceEnded == timers # <<>> /\ timers' = Tail(timers)

\* ------------------------------------------------------------------ C21
\* C21 (as claimed): a terminate() that finds a shared child sends SIGTERM to
\* that child; and when the grace period of that terminate() ends while the
\* same child is still alive, SIGKILL is sent to it.
C21_GracefulThenForceful ==
  [][/\ TerminateArmed
        => children'[currentProcess].signals =
             Append(children[currentProcess].signals, "SIGTERM")
     /\ (GraceEnded /\ children[Head(timers)].alive)
        => children'[Head(timers)].signals =
             Append(children[Head(timers)].signals, "SIGKILL")]_vars

\* The first half of C21 alone.
C21_SigtermSent ==
  [][TerminateArmed
     => /\ currentProcess # Undefined
        /\ timers' = Append(timers, currentProcess)
        /\ children'[currentProcess].signals =
             Append(children[currentProcess].signals, "SIGTERM")]_vars

\* A step in which terminate() was called: by the extension, or by
\* launchBackend before it spawns the shared child.
TerminateCalled ==
  \/ nterm' # nterm
  \/ ~launch.forceNew /\ launch.pc = "extract" /\ launch'.pc = "parsing"

\* ------------------------------------------------------------------ C22
\* C22 (as claimed): when terminate() has returned, the cached connection is
\* cleared and so is the shared handle (until launchBackend, when it was the
\* caller, assigns the child it spawns next); a terminate() that finds no
\* shared process sends no signal to any child and arms no timer.
C22_TerminateIdempotent ==
  [][TerminateCalled
     => /\ currentConnection' = Undefined
        /\ nterm' # nterm => currentProcess' = Undefined
        /\ currentProcess = Undefined
           => /\ timers' = timers
              /\ \A c \in DOMAIN children : children'[c] = children[c]]_vars

\* C22 without the cached connection: the handle is cleared, and a call that
\* finds no shared process signals nothing and arms nothing.
C22_NoSignalNoTimer ==
  [][TerminateCalled
     => /\ nterm' # nterm => currentProcess' = Undefined
        /\ currentProcess # Undefined => currentConnection' = Undefined
        /\ currentProcess = Undefined
           => /\ timers' = timers
              /\ currentConnection' = currentConnection
              /\ \A c \in DOMAIN children : children'[c] = children[c]]_vars

\* A step in which findExistingBackend ran to its end.
Probed == launch.pc = "probing" /\ launch'.pc # "probing"

\* ------------------------------------------------------------------ C29
\* C29 (as claimed): when a port is remembered, the first port the probe
\* tries is that port.
C29_RememberedPortAlwaysFirst ==
  [][(Probed /\ lastUsedPort # Undefined)
     => launch'.order[1] = lastUsedPort]_vars

\* C29 (amended): when a port is remembered and it is none of the fixed
\* ports, the probe tries it first and the fixed ports after it, in their
\* order; when it is one of the fixed ports, or no port is remembered, the
\* probe tries the fixed ports in their order, the remembered port at its
\* place among them.
C29_RememberedPortFirst ==
  [][Probed
     => IF lastUsedPort # Undefined /\ lastUsedPort \notin Range(PriorityPorts)
          THEN /\ launch'.order[1] = lastUsedPort
               /\ Tail(launch'.order) = PriorityPorts
          ELSE launch'.order = PriorityPorts]_vars

\* The probe ran with a remembered port that is none of the fixed ports, and
\* no port answered.
C29_Witness ==
  /\ launch.pc = "extract"
  /\ ~launch.forceNew
  /\ lastUsedPort # Undefined
  /\ lastUsedPort \notin Range(PriorityPorts)
  /\ launch.order[1] = lastUsedPort
  /\ launch.responders = {}

\* A step in which child c exited: it was running and is not any more, and
\* it is not the "error" event of a child that could not be started.
Exited(c) ==
  /\ children[c].alive
  /\ ~children'[c].alive
  /\ ~(/\ Len(launch'.failures) > Len(launch.failures)
       /\ launch'.failures[Len(launch'.failures)] = "error")

\* ------------------------------------------------------------------ C30
\* C30 (as claimed): when the child this.currentProcess refers to exits,
\* this.currentProcess and this.currentConnection are cleared; when any other
\* child exits (one spawned with forceNew, or one that is no longer the
\* shared one), both are left as they were.
C30_ExitClearsShared ==
  [][\A c \in DOMAIN children :
       Exited(c)
       => IF currentProcess = c
            THEN currentProcess' = Undefined /\ currentConnection' = Undefined
            ELSE /\ currentProcess' = currentProcess
                 /\ currentConnection' = currentConnection]_vars

\* C30 for the children whose exit handler is installed (the announcement
\* was read), and for every child that is not the shared one.
C30_HandledExitClearsShared ==
  [][\A c \in DOMAIN children :
       Exited(c)
       => IF currentProcess = c /\ children[c].handlers
            THEN currentProcess' = Undefined /\ currentConnection' = Undefined
            ELSE /\ currentProcess' = currentProcess
                 /\ currentConnection' = currentConnection]_vars

\* A launchBackend call that has not returned or thrown yet.
InFlight(l) == l.pc \notin {"idle", "done"}

\* The children spawned for the shared connection that run, were sent no
\* signal and are not the one this.currentProcess refers to.
Unreferenced ==
  {c \in DOMAIN children : /\ children[c].shared
                           /\ children[c].alive
                           /\ children[c].signals = <<>>
                           /\ c # currentProcess}

\* ------------------------------------------------------------------ C23
\* C23 (as claimed): while a launchBackend call without forceNew is in
\* flight, an overlapping call without forceNew spawns no child; and after
\* every step, when this.currentProcess refers to a child, no other child
\* spawned for the shared connection runs unsignalled beside it.
C23_LaunchesSerialized ==
  [][/\ (~launch.forceNew /\ ~overlap.forceNew /\ InFlight(launch))
        => Len(overlap'.spawned) = Len(overlap.spawned)
     /\ (~launch'.forceNew /\ ~overlap'.forceNew /\ currentProcess' # Undefined)
        => Unreferenced' = {}]_vars

\* The first half of C23 alone.
C23_SecondSpawnsNothing ==
  [][(~launch.forceNew /\ ~overlap.forceNew /\ InFlight(launch))
     => Len(overlap'.spawned) = Len(overlap.spawned)]_vars

\* The requests whose connection is there: awaiting the response, streaming,
\* or answered with another status than 200 and left unread.
Live == {r \in DOMAIN requests :
           requests[r].state \in {"pending", "open", "rejected"}}

\* ------------------------------------------------------------------ C24
\* C24: at any time at most one event-stream request of the surface has a
\* connection, and it is the retained one; a step taken while a request is
\* retained makes no new request, whatever sends have run or overlap.
C24_OneRetainedStream ==
  [][/\ Cardinality(Live') <= 1
     /\ \A r \in Live' : eventStreamRequest' = r
     /\ eventStreamRequest # Undefined => Len(requests') = Len(requests)]_vars

\* Two sends have run through startEventStreamListener and one request was
\* made, which is retained.
C24_Witness ==
  /\ chats = <<"done", "done">>
  /\ Len(requests) = 1
  /\ eventStreamRequest = 1
  /\ requests[1].state = "open"

\* ------------------------------------------------------------------ C25
\* C25 (as claimed): dispose() hands the surface's bridge session to
\* bridgeServer.removeSession; once dispose() has run, none of the surface's
\* event-stream requests has a connection, and no message is handed to the
\* UI any more.
C25_TeardownClosesRelay ==
  [][/\ (~disposed /\ disposed' /\ bridgeSessionId # Null)
        => removeCalls' = Append(removeCalls, bridgeSessionId)
     /\ disposed' => Live' = {}
     /\ disposed => posted' = posted]_vars

\* The parts of C25 about the bridge session dispose() finds and about the
\* messages to the UI.
C25_NothingForwarded ==
  [][/\ (~disposed /\ disposed' /\ bridgeSessionId # Null)
        => removeCalls' = Append(removeCalls, bridgeSessionId)
     /\ disposed => posted' = posted]_vars

\* The lines, each with its newline again.
RECURSIVE JoinLines(_)
JoinLines(lines) ==
  IF lines = <<>> THEN <<>>
  ELSE Head(lines) \o <<NL>> \o JoinLines(Tail(lines))

\* What the data handler of request r has made of the bytes it was given:
\* the lines it extracted, rejoined, and the partial line it keeps.
Reassembled(r) == JoinLines(requests[r].lines) \o requests[r].buffer

\* ------------------------------------------------------------------ C26
\* C26 (as claimed): whatever chunks the bytes of a stream arrived in, the
\* extracted lines followed by the retained partial line are the text of
\* the bytes read so far, and the extracted lines are those of these bytes
\* read as one chunk.
C26_ReassemblyRoundTrips ==
  \A r \in DOMAIN requests :
    /\ Reassembled(r) = Decode(requests[r].delivered)
    /\ requests[r].lines = Front(SplitLines(Decode(requests[r].delivered)))

\* C26 for the streams none of whose two-byte characters was cut by a chunk
\* boundary.
C26_WholeCharactersRoundTrip ==
  \A r \in DOMAIN requests :
    (\A i \in DOMAIN Reassembled(r) : Reassembled(r)[i] # Replacement)
    => /\ Reassembled(r) = Decode(requests[r].delivered)
       /\ requests[r].lines = Front(SplitLines(Decode(requests[r].delivered)))

\* The lines extracted from all streams, in the order of the requests.
RECURSIVE LinesUpTo(_)
LinesUpTo(n) ==
  IF n = 0 THEN <<>> ELSE LinesUpTo(n - 1) \o requests[n].lines
AllLines == LinesUpTo(Len(requests))

\* A line that carries the marker and a payload other than empty or `{}`.
DataLine(line) ==
  /\ Len(Trim(line)) >= 2
  /\ Head(Trim(line)) = Marker
  /\ Tail(Trim(line)) # <<Open, Close>>

\* A line that is the marker and the JSON text of one event, blanks around
\* it aside.
EventLine(line) ==
  /\ Len(Trim(line)) = 4
  /\ Trim(line)[1] = Marker
  /\ Trim(line)[2] = Open
  /\ Trim(line)[3].ch = "json"
  /\ Trim(line)[4] = Close

\* The events of the event lines, in order.
RECURSIVE Carried(_)
Carried(lines) ==
  IF lines = <<>> THEN <<>>
  ELSE (IF EventLine(Head(lines)) THEN <<Trim(Head(lines))[3].ev>> ELSE <<>>)
       \o Carried(Tail(lines))

\* ------------------------------------------------------------------ C27
\* C27 (as claimed): the events handed to handleServerEvent are as many as
\* the complete lines that carry the marker and a payload other than empty
\* or `{}`.
C27_EveryDataLineHanded ==
  Len(handled) = Len(SelectSeq(AllLines, DataLine))

\* C27 (amended): the events handed to handleServerEvent are, in order, the
\* events of the complete lines that carry the marker and a payload that is a
\* JSON text other than `{}`; lines without the marker, heartbeats and
\* payloads that are not JSON hand over nothing.
C27_DataLinesHanded ==
  handled = Carried(AllLines)

\* The stream `data: {"a":1}`, blank line, `data: {}`, blank line was read
\* to its end: one event, {"a":1}, was handed over.
C27_Witness ==
  /\ Len(requests) = 1
  /\ requests[1].delivered =
       <<Marker, Open, Json(EventA), Close, NL, NL,
         Marker, Open, Close, NL, NL>>
  /\ requests[1].buffer = <<>>
  /\ Len(requests[1].lines) = 4
  /\ handled = <<EventA>>

\* The text the tests' extractTextContent takes from a part-updated event:
\* the first that is there of delta as a string, delta.text, part.text, part
\* as a string.
StatedText(e) ==
  Or(IF e.delta.kind = "string" THEN e.delta.text ELSE NoText,
     Or(DotText(e.delta),
        Or(DotText(e.part),
           IF e.part.kind = "string" THEN e.part.text ELSE NoText)))

\* A step in which one event was handed to handleServerEvent while the
\* CommunicationBridge is there.
Handed ==
  /\ Len(handled') = Len(handled) + 1
  /\ communicationBridge

\* ------------------------------------------------------------------ C28
\* C28 (as claimed): for a message.part.updated event the relay sends one
\* chat.streaming message with the first text that is there of delta as a
\* string, delta.text, part.text, part as a string, and no message when none
\* is there; with part {text: X} and the string delta D the text is D.
C28_PartUpdatedText ==
  [][(Handed /\ Last(handled').type = "message.part.updated")
     => LET e == Last(handled')
        IN /\ posted' = posted \o
                (IF Truthy(StatedText(e))
                   THEN <<Message("chat.streaming", StatedText(e))>>
                   ELSE <<>>)
           /\ (e.part = Obj("X") /\ e.delta = Str("D"))
              => Last(posted') = Message("chat.streaming", "D")]_vars

\* C28 for the events whose delta is not a string.
C28_ObjectDeltaText ==
  [][(/\ Handed
      /\ Last(handled').type = "message.part.updated"
      /\ Last(handled').delta.kind # "string")
     => posted' = posted \o
          (IF Truthy(StatedText(Last(handled')))
             THEN <<Message("chat.streaming", StatedText(Last(handled')))>>
             ELSE <<>>)]_vars

\* A step in which a chat send was accepted by the backend (prompt_async
\* answered ok) and went on to startEventStreamListener.
SendAccepted ==
  \E i \in DOMAIN chats : chats[i] = "prompt" /\ chats'[i] = "done"

\* The requests that deliver events or may still do so.
Delivering == {r \in DOMAIN requests : requests[r].state \in {"pending", "open"}}

\* ------------------------------------------------------------------ C39
\* C39 (as claimed): when a request was made earlier and none delivers
\* events any more (each was ended by the server, errored, or was answered
\* with another status than 200), the next accepted chat send of the live
\* surface makes a new request, which is retained.
C39_SendReopensStream ==
  [][(/\ SendAccepted
      /\ ~disposed
      /\ requests # <<>>
      /\ Delivering = {})
     => /\ Len(requests') = Len(requests) + 1
        /\ eventStreamRequest' = Len(requests')]_vars

\* C39 for the streams that the server ended or that errored.
C39_ReopensAfterEndOrError ==
  [][(/\ SendAccepted
      /\ ~disposed
      /\ requests # <<>>
      /\ \A r \in DOMAIN requests : requests[r].state \in {"ended", "errored"})
     => /\ Len(requests') = Len(requests) + 1
        /\ eventStreamRequest' = Len(requests')]_vars

\* The lines the data handler of request r extracts in this step, and the
\* chunk it was given.
NewLines(r) ==
  SubSeq(requests'[r].lines, Len(requests[r].lines) + 1,
         Len(requests'[r].lines))
NewChunk(r) ==
  SubSeq(requests'[r].delivered, Len(requests[r].delivered) + 1,
         Len(requests'[r].delivered))

\* A data line whose payload is not a JSON text.
InvalidLine(line) == DataLine(line) /\ ~EventLine(line)

\* ------------------------------------------------------------------ C40
\* C40: in a read of a stream that has extracted a data line whose payload
\* is not valid JSON, in this read or an earlier one, the events handed on
\* are those of the read's other complete lines, in order, and only their
\* messages are sent; the retained partial line is the text after the last
\* newline; the stream stays open and retained.
C40_InvalidJsonSkipped ==
  [][\A r \in DOMAIN requests :
       (/\ requests'[r].delivered # requests[r].delivered
        /\ \E i \in DOMAIN requests'[r].lines :
             InvalidLine(requests'[r].lines[i]))
       => /\ handled' = handled \o Carried(NewLines(r))
          /\ posted' = posted \o (IF communicationBridge
                                    THEN MessagesOf(Carried(NewLines(r)))
                                    ELSE <<>>)
          /\ requests'[r].buffer =
               Last(SplitLines(requests[r].buffer \o Decode(NewChunk(r))))
          /\ requests'[r].state = "open"
          /\ eventStreamRequest' = eventStreamRequest]_vars

\* A data line with a JSON text cut short was read, then an event in a
\* later read: the event was handed on and its message sent.
C40_Witness ==
  /\ Len(requests) = 1
  /\ requests[1].lines =
       << <<Marker, Open, Json(EventA)>>, <<>>,
          <<Marker, Open,
            Json(Event("chat.streaming", "hi", NoText, Absent, Absent)),
            Close>>, <<>> >>
  /\ handled = <<Event("chat.streaming", "hi", NoText, Absent, Absent)>>
  /\ posted = <<Message("chat.streaming", "hi")>>
  /\ requests[1].state = "open"

\* The `event: message` frames handed to the write of stream c, in order.
MessageFrames(st, c) == SelectSeq(st[c].writes, LAMBDA f : f.kind = "message")

\* ------------------------------------------------------------------ C33
\* C33: a broadcast hands its frame once to the write of every stream that
\* is in the session's subscriber set when it is issued, and on every stream
\* the frames of broadcasts come in the order the broadcasts were issued,
\* none of them twice (a broadcast is known by its timestamp).
C33_BroadcastsInOrder ==
  [][/\ now' > now
        => \A c \in sess[last'.sid].sseClients :
             /\ MessageFrames(streams', c) =
                  Append(MessageFrames(streams, c), Last(streams'[c].writes))
             /\ Last(streams'[c].writes).ts = now'
     /\ \A c \in DOMAIN streams' :
          \A i, j \in DOMAIN MessageFrames(streams', c) :
            i < j => MessageFrames(streams', c)[i].ts
                       < MessageFrames(streams', c)[j].ts]_vars

\* Two subscribers of one session were each handed the frames of two
\* broadcasts, the first before the second.
C33_Witness ==
  \E c, d \in DOMAIN streams :
    /\ c # d
    /\ streams[c].sid = streams[d].sid
    /\ Len(MessageFrames(streams, c)) = 2
    /\ MessageFrames(streams, c) = MessageFrames(streams, d)
    /\ MessageFrames(streams, c)[1].ts = 1
    /\ MessageFrames(streams, c)[2].ts = 2

\* ------------------------------------------------------------------ C36
\* C36 (as claimed): no frame is handed to the write of a stream that
\* removeSession has ended.
C36_NoWriteAfterRemove ==
  [][\A c \in DOMAIN streams :
       streams[c].state = "ended" => streams'[c].writes = streams[c].writes]_vars

\* C36 for the pushes and the keepalive ticks.
C36_PushesSkipRemoved ==
  [][last'.op \in {"push", "tick"}
     => \A c \in DOMAIN streams :
          streams[c].state = "ended"
          => streams'[c].writes = streams[c].writes]_vars

\* ------------------------------------------------------------------ C34
\* C34 (as claimed): the baseUrl createSession returns carries the port the
\* listener is bound to.
C34_BaseUrlHasBoundPort ==
  \A i \in DOMAIN sess : sess[i].baseUrlPort = ListenPort

\* C34 for the calls made while the server listens, and for the call that
\* started it.
C34_BoundPortOnceListening ==
  [][\A i \in DOMAIN sess' \ DOMAIN sess :
       server' = "listening" => sess'[i].baseUrlPort = ListenPort]_vars

\* ------------------------------------------------------------------ C35
\* C35 (as claimed): when a force-kill timer fires, no other child than the
\* one its terminate() call signalled is sent a signal.
C35_TimerKillsOnlyItsChild ==
  [][GraceEnded
     => \A c \in DOMAIN children :
          children'[c].signals # children[c].signals => c = Head(timers)]_vars

\* C35 for the timers that fire while no shared child is referenced.
C35_TimerIdleWithoutHandle ==
  [][(GraceEnded /\ currentProcess = Undefined) => children' = children]_vars

\* A step in which the call `launch` rejects.
Rejects ==
  launch.pc # "done" /\ launch'.pc = "done" /\ launch'.result.kind = "error"

\* ------------------------------------------------------------------ C38
\* C38 (as claimed): when a launchBackend call rejects, every child it
\* spawned that still runs and was sent no signal is the one
\* this.currentProcess refers to.
C38_NoOrphanOnReject ==
  [][Rejects
     => \A i \in DOMAIN launch'.spawned :
          LET c == launch'.spawned[i]
          IN (children'[c].alive /\ children'[c].signals = <<>>)
             => currentProcess' = c]_vars

\* C38 for the calls without forceNew that spawned one child.
C38_SharedSingleAttemptKept ==
  [][(Rejects /\ ~launch.forceNew /\ Len(launch'.spawned) = 1 /\ nterm = 0)
     => LET c == launch'.spawned[1]
        IN (children'[c].alive /\ children'[c].signals = <<>>)
           => currentProcess' = c]_vars

\* The connection parseConnectionInfo makes of what was read of stdout so
\* far.
Recognised(w) == ScanLines(SplitLines(w.stdoutData))

\* ------------------------------------------------------------------ C31
\* C31: a wait makes one resolve or reject call at most and what follows
\* changes nothing of it; the read in which an announcement is first
\* recognised resolves with its connection; an exit, an error or the timeout
\* before that rejects, for exit and timeout with the stderr captured so far.
C31_FirstAnnouncementOrFailure ==
  [][/\ Len(wait'.calls) <= 1
     /\ wait.calls # <<>> => wait'.calls = wait.calls
     /\ (/\ wait.pc = "waiting" /\ wait.calls = <<>>
         /\ wait'.stdoutData # wait.stdoutData)
        => IF Recognised(wait').ok
             THEN /\ Len(wait'.calls) = 1
                  /\ wait'.calls[1].kind = "resolve"
                  /\ wait'.calls[1].port = Recognised(wait').port
                  /\ wait'.calls[1].uiBase = Recognised(wait').uiBase
             ELSE wait'.calls = <<>>
     /\ (wait.pc = "waiting" /\ wait.calls = <<>> /\ wait'.exited /\ ~wait.exited)
        => wait'.calls = <<Outcome("reject", "exit", Undefined, <<>>,
                                  wait.stderrData)>>
     /\ (wait.pc = "waiting" /\ wait.calls = <<>> /\ wait'.timeout = "fired")
        => wait'.calls = <<Outcome("reject", "timeout", Undefined, <<>>,
                                  wait.stderrData)>>
     /\ (wait.pc = "waiting" /\ wait.calls = <<>> /\ wait'.errored /\ ~wait.errored)
        => /\ Len(wait'.calls) = 1
           /\ wait'.calls[1].kind = "reject"
           /\ wait'.calls[1].reason = "error"]_vars

\* The announcement between two log lines was read line by line: the wait
\* resolved with port 4096 at the announcement, and the later line and the
\* exit of the child changed nothing.
C31_Witness ==
  /\ wait.unwritten = <<>>
  /\ wait.stdoutData = <<Noise, NL>> \o Announcement \o <<Noise, NL>>
  /\ wait.exited
  /\ wait.timeout = "cleared"
  /\ Len(wait.calls) = 1
  /\ wait.calls[1].kind = "resolve"
  /\ wait.calls[1].port = 4096
  /\ wait.calls[1].read = 10

\* The exit of a child that announced nothing rejected the wait with the
\* two chunks of stderr read before.
C31_ExitWitness ==
  /\ wait.calls = <<[Outcome("reject", "exit", Undefined, <<>>, 2)
                      EXCEPT !.read = 2]>>
  /\ wait.stdoutData = <<Noise, NL>>

\* ------------------------------------------------------------------ C32
\* C32 (as claimed): the port and the uiBase a wait resolves with are those
\* of the child's output read as one chunk.
C32_ChunkingIrrelevant ==
  \A i \in DOMAIN wait.calls :
    wait.calls[i].kind = "resolve"
    => LET whole == ScanLines(SplitLines(wait.stdoutData \o wait.unwritten))
       IN /\ wait.calls[i].port = whole.port
          /\ wait.calls[i].uiBase = whole.uiBase

\* C32 for the waits that resolve in a read that ends at the end of a line.
C32_WholeLinesAgree ==
  \A i \in DOMAIN wait.calls :
    (/\ wait.calls[i].kind = "resolve"
     /\ wait.stdoutData[wait.calls[i].read] = NL)
    => LET whole == ScanLines(SplitLines(wait.stdoutData \o wait.unwritten))
       IN /\ wait.calls[i].port = whole.port
          /\ wait.calls[i].uiBase = whole.uiBase

====
